---- MODULE Spec2Model ----
(***************************************************************************)
(* Model of the streaming session of the brokerage client                  *)
(* (src/src/schwab/schwab_streamer.rs): the session state behind the tokio *)
(* mutex, the atomic request-id counter, the callers of start/send/stop/   *)
(* is_active, the reader task spawned by start and the delivery channel;   *)
(* of the market-data client (schwab_api.rs), the authenticator and the    *)
(* tokens file (schwab_auth.rs), and of the utilities (src/src/util.rs).   *)
(* Await points of the async functions are the step boundaries.            *)
(***************************************************************************)
EXTENDS Integers, Sequences, FiniteSets, TLC

(***************************************************************************)
(* Bounds of the model.                                                    *)
(***************************************************************************)
\* number of start() calls that reach the WebSocket connect
MaxStarts == 2
\* request ids that may be consumed in one behaviour
MaxId == 3
\* inbound frames carrying data that are read in one behaviour
MaxFrames == 2
\* inbound frames carrying data that are read in one behaviour of the
\* scenario that fills the delivery channel
MaxBurst == 51
\* REST calls made in one behaviour
MaxCalls == 2
\* calls of authorize and refresh_tokens made in one behaviour
MaxGrants == 2
\* length of the vectors given to dedup_ordered
MaxLen == 5

\* mpsc::channel(100) in start
ChannelCapacity == 100

\* callers holding a clone of the SchwabStreamer: the owner starts and stops
\* the session and sends, the worker sends and stops
Clients == {"owner", "worker"}
Conns == 1..MaxStarts

(***************************************************************************)
(* Field tags are decimal strings on the wire and in the ledger.  A tag is *)
(* modelled by its number; Rust compares the Strings byte-wise, that is by *)
(* the lexicographic order of the decimal digits.                          *)
(***************************************************************************)
RECURSIVE to_string(_)
to_string(n) == IF n < 10 THEN <<n>> ELSE Append(to_string(n \div 10), n % 10)

RECURSIVE LexLess(_, _)
LexLess(a, b) ==
    IF a = <<>> THEN b # <<>>
    ELSE IF b = <<>> THEN FALSE
    ELSE IF Head(a) # Head(b) THEN Head(a) < Head(b)
    ELSE LexLess(Tail(a), Tail(b))

\* Ord for String applied to two rendered tags
StrLess(x, y) == LexLess(to_string(x), to_string(y))

\* Vec::extend
extend(v, w) == v \o w

RECURSIVE InsertSorted(_, _)
InsertSorted(x, s) ==
    IF s = <<>> THEN <<x>>
    ELSE IF StrLess(x, Head(s)) THEN <<x>> \o s
    ELSE <<Head(s)>> \o InsertSorted(x, Tail(s))

\* a sort that leaves the vector as it is
sort_skipped(v) == v

\* Vec<String>::sort
RECURSIVE sort(_)
sort(v) == IF v = <<>> THEN <<>> ELSE InsertSorted(Head(v), sort(Tail(v)))

\* Vec::dedup: removes consecutive repeated elements
RECURSIVE dedup(_)
dedup(v) ==
    IF Len(v) < 2 THEN v
    ELSE IF v[1] = v[2] THEN dedup(Tail(v))
    ELSE <<v[1]>> \o dedup(Tail(v))

(***************************************************************************)
(* The subscription ledger: HashMap<Service, HashMap<String, Vec<String>>>.*)
(* A map is a function whose domain is the set of keys present.            *)
(***************************************************************************)
EmptyMap == <<>>

MapPut(m, k, v) == [x \in (DOMAIN m) \cup {k} |-> IF x = k THEN v ELSE m[x]]

MapRemove(m, k) == [x \in (DOMAIN m) \ {k} |-> m[x]]

\* entry(key).or_default() read as a value
GetOrDefault(m, k) == IF k \in DOMAIN m THEN m[k] ELSE <<>>

\* Command::Add arm of record_request
RECURSIVE AddKeys(_, _, _)
AddKeys(service_map, keys, fields) ==
    IF keys = <<>> THEN service_map
    ELSE LET key == Head(keys)
             key_fields == dedup(sort(extend(GetOrDefault(service_map, key), fields)))
         IN AddKeys(MapPut(service_map, key, key_fields), Tail(keys), fields)

\* a Subs arm that merges into the stored fields as the Add arm does
SubsKeys_merging(service_map, keys, fields) == AddKeys(service_map, keys, fields)

\* Command::Subs arm of record_request
RECURSIVE SubsKeys(_, _, _)
SubsKeys(service_map, keys, fields) ==
    IF keys = <<>> THEN service_map
    ELSE SubsKeys(MapPut(service_map, Head(keys), fields), Tail(keys), fields)

\* an Unsubs arm that clears the whole service
UnsubsKeys_clearing(service_map, keys) == EmptyMap

\* Command::Unsubs arm of record_request
RECURSIVE UnsubsKeys(_, _)
UnsubsKeys(service_map, keys) ==
    IF keys = <<>> THEN service_map
    ELSE UnsubsKeys(MapRemove(service_map, Head(keys)), Tail(keys))

record_request(subs, stream_request) ==
    LET service_map == GetOrDefault(subs, stream_request.service)
        updated ==
            CASE stream_request.command = "ADD" ->
                    AddKeys(service_map, stream_request.keys, stream_request.fields)
              [] stream_request.command = "SUBS" ->
                    SubsKeys(service_map, stream_request.keys, stream_request.fields)
              [] stream_request.command = "UNSUBS" ->
                    UnsubsKeys(service_map, stream_request.keys)
              [] OTHER -> service_map
    IN MapPut(subs, stream_request.service, updated)

(***************************************************************************)
(* Inbound side: the envelope read by the reader task.                     *)
(***************************************************************************)
None == <<>>
Some(x) == <<x>>

\* serde_json::Value of the "code" member of a response content
JsonUInt(n) == [t |-> "uint", v |-> n]
JsonNegInt == [t |-> "int", v |-> 0 - 1]
JsonString == [t |-> "string", v |-> 0]
JsonAbsent == [t |-> "absent", v |-> 0]

\* Value::get("code").and_then(Value::as_u64)
as_u64(value) == IF value.t = "uint" THEN Some(value.v) ELSE None

\* StreamerResponse { command, content }
StreamerResponse(command, content) == [command |-> command, content |-> content]

\* a handler that takes any LOGIN response for the ack
handle_command_response_any_login(active, response) ==
    IF response.command = "LOGIN" THEN TRUE ELSE active

\* a handler that stores whether the code of a LOGIN response is 0
handle_command_response_storing(active, response) ==
    IF response.command = "LOGIN"
    THEN response.content # None /\ as_u64(response.content[1].code) = Some(0)
    ELSE active

\* a handler that takes the session out of the active state on LOGOUT
handle_command_response_logout(active, response) ==
    CASE response.command = "LOGIN" ->
            IF response.content # None /\ as_u64(response.content[1].code) = Some(0)
            THEN TRUE
            ELSE active
      [] response.command = "LOGOUT" -> FALSE
      [] OTHER -> active

\* the effect of handle_command_response on is_active
handle_command_response(active, response) ==
    CASE response.command = "LOGIN" ->
            IF response.content # None /\ as_u64(response.content[1].code) = Some(0)
            THEN TRUE
            ELSE active
      [] response.command \in {"ADD", "SUBS", "UNSUBS"} -> active
      [] response.command = "VIEW" -> active
      [] response.command = "LOGOUT" -> active
      [] OTHER -> active

\* for r in &message.response { guard.handle_command_response(r) }
RECURSIVE HandleResponses(_, _)
HandleResponses(active, responses) ==
    IF responses = <<>> THEN active
    ELSE HandleResponses(handle_command_response(active, Head(responses)), Tail(responses))

\* a content item of a data entry: its "key" member ("" when the member is
\* absent) and whether its tagged members ("1", "2", ...) hold values of the
\* types the record of the service declares
Item(key, typed) == [key |-> key, typed |-> typed]

\* Deserialize for LevelOneEquitiesResponse: symbol is the member "key", every
\* other member is optional and typed
LevelOneEquitiesResponse(item) ==
    IF item.key # "" /\ item.typed THEN Some([symbol |-> item.key]) ELSE None

\* Deserialize for LevelOneOptionsResponse: as for equities
LevelOneOptionsResponse(item) ==
    IF item.key # "" /\ item.typed THEN Some([symbol |-> item.key]) ELSE None

\* Deserialize for LevelOneFuturesResponse: as for equities
LevelOneFuturesResponse(item) ==
    IF item.key # "" /\ item.typed THEN Some([symbol |-> item.key]) ELSE None

\* Deserialize for LevelOneFuturesOptionsResponse
LevelOneFuturesOptionsResponse(item) ==
    IF item.key # "" /\ item.typed THEN Some([symbol |-> item.key]) ELSE None

\* Deserialize for LevelOneForexResponse
LevelOneForexResponse(item) ==
    IF item.key # "" /\ item.typed THEN Some([symbol |-> item.key]) ELSE None

\* the variants of StreamerData by their serde names
LevelOneServices ==
    {"LEVELONE_EQUITIES", "LEVELONE_OPTIONS", "LEVELONE_FUTURES",
     "LEVELONE_FUTURES_OPTIONS", "LEVELONE_FOREX"}

\* one element of the content of a data entry decoded as the record of the
\* service of the entry
DecodeItem(service, item) ==
    CASE service = "LEVELONE_EQUITIES" -> LevelOneEquitiesResponse(item)
      [] service = "LEVELONE_OPTIONS" -> LevelOneOptionsResponse(item)
      [] service = "LEVELONE_FUTURES" -> LevelOneFuturesResponse(item)
      [] service = "LEVELONE_FUTURES_OPTIONS" -> LevelOneFuturesOptionsResponse(item)
      [] service = "LEVELONE_FOREX" -> LevelOneForexResponse(item)
      [] OTHER -> None

\* a data entry { service, content }; the content of an ADMIN entry is null,
\* written <<>>
DataEntry(service, content) == [service |-> service, content |-> content]

\* a StreamerData that takes an entry of any other service for equities
StreamerData_catch_all(entry) ==
    Some([service |-> IF entry.service \in LevelOneServices \cup {"ADMIN"}
                      THEN entry.service ELSE "LEVELONE_EQUITIES",
          content |-> IF entry.service = "ADMIN" THEN <<>>
                      ELSE [i \in 1..Len(entry.content) |->
                                [symbol |-> entry.content[i].key]]])

\* Deserialize for StreamerData: the service selects the variant, the content
\* is the Vec of its records (the unit for ADMIN); a service that names no
\* variant and a content item that is no record are errors
StreamerData(entry) ==
    CASE entry.service \in LevelOneServices ->
            IF \A i \in 1..Len(entry.content) :
                   DecodeItem(entry.service, entry.content[i]) # None
            THEN Some([service |-> entry.service,
                       content |-> [i \in 1..Len(entry.content) |->
                                       DecodeItem(entry.service, entry.content[i])[1]]])
            ELSE None
      [] entry.service = "ADMIN" ->
            IF entry.content = <<>>
            THEN Some([service |-> entry.service, content |-> <<>>])
            ELSE None
      [] OTHER -> None

\* the frames read.next() yields: a text frame with the response and data
\* arrays of its JSON object, or one of the other outcomes
TopLevelMessage(response, data) == [kind |-> "text", response |-> response, data |-> data]

\* serde_json::from_str::<TopLevelMessage>(&text): the whole object decodes
\* or the call fails
from_str(event) ==
    IF /\ event.kind = "text"
       /\ \A i \in 1..Len(event.data) : StreamerData(event.data[i]) # None
    THEN Some([response |-> event.response,
               data |-> [i \in 1..Len(event.data) |-> StreamerData(event.data[i])[1]]])
    ELSE None

\* a mapping that wraps the records of every service as equities
Variant_equity(service) == "LevelOneEquity"

\* the variant of StreamerMessage a decoded data entry is mapped to
Variant(service) ==
    CASE service = "LEVELONE_EQUITIES" -> "LevelOneEquity"
      [] service = "LEVELONE_OPTIONS" -> "LevelOneOption"
      [] service = "LEVELONE_FUTURES" -> "LevelOneFutures"
      [] service = "LEVELONE_FUTURES_OPTIONS" -> "LevelOneFuturesOptions"
      [] service = "LEVELONE_FOREX" -> "LevelOneForex"

\* impl From<StreamerData> for Vec<StreamerMessage>
Into(streamer_data) ==
    IF streamer_data.service = "ADMIN" THEN <<>>
    ELSE [i \in 1..Len(streamer_data.content) |->
              [variant |-> Variant(streamer_data.service),
               symbol |-> streamer_data.content[i].symbol]]

\* the messages of the data entries of a decoded frame, in the order of the
\* two loops of the reader
RECURSIVE Messages(_)
Messages(data) ==
    IF data = <<>> THEN <<>> ELSE Into(Head(data)) \o Messages(Tail(data))

\* the messages of a frame marked with the number of the frame in arrival
\* order and their place in the frame, which tell apart the messages that
\* the quotes they carry tell apart
Stamped(messages, frame) ==
    [i \in 1..Len(messages) |->
        [variant |-> messages[i].variant, symbol |-> messages[i].symbol,
         frame |-> frame, pos |-> i]]

LoginAck(code) == StreamerResponse("LOGIN", Some([code |-> code]))

SocketError == [kind |-> "error", response |-> <<>>, data |-> <<>>]
EndOfStream == [kind |-> "eof", response |-> <<>>, data |-> <<>>]
Undecodable == [kind |-> "undecodable", response |-> <<>>, data |-> <<>>]

Aapl == Item("AAPL", TRUE)
Msft == Item("MSFT", TRUE)
Equities(content) == DataEntry("LEVELONE_EQUITIES", content)

\* what read.next() yields in the scenarios of the callers
SessionEvents == {TopLevelMessage(<<LoginAck(JsonUInt(0))>>, <<>>), SocketError}

\* what read.next() can yield: responses of every shape
SocketEvents ==
    { TopLevelMessage(<<LoginAck(JsonUInt(0))>>, <<>>),
      TopLevelMessage(<<LoginAck(JsonUInt(3))>>, <<>>),
      TopLevelMessage(<<LoginAck(JsonNegInt)>>, <<>>),
      TopLevelMessage(<<LoginAck(JsonString)>>, <<>>),
      TopLevelMessage(<<LoginAck(JsonAbsent)>>, <<>>),
      TopLevelMessage(<<StreamerResponse("LOGIN", None)>>, <<>>),
      TopLevelMessage(<<StreamerResponse("SUBS", Some([code |-> JsonUInt(0)]))>>, <<>>),
      TopLevelMessage(<<StreamerResponse("LOGOUT", Some([code |-> JsonUInt(0)]))>>, <<>>),
      TopLevelMessage(<<StreamerResponse("UNKNOWN", Some([code |-> JsonUInt(0)]))>>, <<>>),
      TopLevelMessage(<<LoginAck(JsonUInt(3)), LoginAck(JsonUInt(0))>>, <<Equities(<<Aapl>>)>>),
      TopLevelMessage(<<>>, <<Equities(<<Aapl>>)>>),
      TopLevelMessage(<<>>, <<>>),
      Undecodable,
      SocketError,
      EndOfStream }

\* what read.next() can yield: data of every shape.  Entries of one and of
\* several services, of an unknown service, of ADMIN; items in the format of
\* the server ("key" and tags), items without "key", items with a mistyped
\* tag; frames without data
DeliveryEvents ==
    { TopLevelMessage(<<>>, <<Equities(<<Aapl, Msft>>)>>),
      TopLevelMessage(<<>>, <<Equities(<<Msft>>),
                              DataEntry("LEVELONE_OPTIONS", <<Aapl>>)>>),
      TopLevelMessage(<<>>, <<DataEntry("LEVELONE_FUTURES", <<Item("/ES", TRUE)>>)>>),
      TopLevelMessage(<<>>, <<DataEntry("LEVELONE_FOREX", <<Item("EUR/USD", TRUE)>>),
                              DataEntry("LEVELONE_FUTURES_OPTIONS", <<Item("./ES", TRUE)>>)>>),
      TopLevelMessage(<<>>, <<DataEntry("CHART_EQUITY", <<Aapl>>)>>),
      TopLevelMessage(<<LoginAck(JsonUInt(0))>>,
                      <<DataEntry("CHART_EQUITY", <<Aapl>>), Equities(<<Aapl>>)>>),
      TopLevelMessage(<<>>, <<Equities(<<Aapl, Item("MSFT", FALSE)>>)>>),
      TopLevelMessage(<<>>, <<Equities(<<Item("", TRUE)>>)>>),
      TopLevelMessage(<<>>, <<DataEntry("ADMIN", <<>>)>>),
      TopLevelMessage(<<LoginAck(JsonUInt(0))>>, <<>>),
      Undecodable,
      SocketError,
      EndOfStream }

\* what read.next() yields while the channel fills: quotes of two symbols
ChannelEvents == {TopLevelMessage(<<>>, <<Equities(<<Aapl, Msft>>)>>), SocketError}

(***************************************************************************)
(* Outbound side.                                                          *)
(***************************************************************************)
StreamRequest(service, command, keys, fields) ==
    [service |-> service, command |-> command, keys |-> keys, fields |-> fields]

\* keys of serde_json::to_value(StreamerInfo): every member is a String
streamer_info ==
    {"streamerSocketUrl", "schwabClientCustomerId", "schwabClientCorrelId",
     "schwabClientChannel", "schwabClientFunctionId"}

\* a build_message that numbers the frame with the counter after the add
build_message_incremented(id, service, command, keys, fields) ==
    [ok |-> TRUE, next_id |-> id + 1,
     message |-> [requestid |-> id + 1, service |-> service, command |-> command,
                  keys |-> keys, fields |-> fields]]

\* a build_message that reads the counter and does not advance it
build_message_reusing(id, service, command, keys, fields) ==
    [ok |-> TRUE, next_id |-> id,
     message |-> [requestid |-> id, service |-> service, command |-> command,
                  keys |-> keys, fields |-> fields]]

\* build_message: fetch_add first, then the two lookups in streamer_info
build_message(id, service, command, keys, fields) ==
    [ok |-> {"schwabClientCustomerId", "schwabClientCorrelId"} \subseteq streamer_info,
     next_id |-> id + 1,
     message |-> [requestid |-> id, service |-> service, command |-> command,
                  keys |-> keys, fields |-> fields]]

\* the requests callers send in the concurrent session
SubsAapl == StreamRequest("LEVELONE_EQUITIES", "SUBS", <<"AAPL">>, <<2, 10>>)
AddAapl == StreamRequest("LEVELONE_EQUITIES", "ADD", <<"AAPL">>, <<10>>)
UnsubsAapl == StreamRequest("LEVELONE_EQUITIES", "UNSUBS", <<"AAPL">>, <<>>)
SessionRequests == {SubsAapl, AddAapl, UnsubsAapl}

\* the argument of one send call: no request, one request, two requests;
\* the two callers send different requests
SessionBatches(t) ==
    IF t = "owner"
    THEN {<<>>, <<SubsAapl>>, <<SubsAapl, UnsubsAapl>>}
    ELSE {<<AddAapl>>, <<AddAapl, UnsubsAapl>>}

\* the requests of the ledger scenarios: unsorted and repeated field lists,
\* several keys, absent keys, two services, every command
LedgerFields == {<<3>>, <<2, 10>>, <<2, 2>>}
LedgerKeys == {<<"AAPL">>, <<"AAPL", "MSFT">>}
LedgerRequests ==
    { StreamRequest("LEVELONE_EQUITIES", c, k, f) :
          c \in {"ADD", "SUBS"}, k \in LedgerKeys, f \in LedgerFields }
    \cup { StreamRequest("LEVELONE_OPTIONS", c, <<"AAPL">>, <<3>>) : c \in {"ADD", "SUBS", "UNSUBS"} }
    \cup { StreamRequest("LEVELONE_EQUITIES", "UNSUBS", k, <<>>) : k \in LedgerKeys }
    \cup { StreamRequest("LEVELONE_EQUITIES", c, <<"AAPL">>, <<3>>) : c \in {"VIEW", "UNKNOWN"} }
    \cup { StreamRequest("ADMIN", c, <<"AAPL">>, <<3>>) : c \in {"LOGIN", "LOGOUT"} }

LedgerBatches == {<<r>> : r \in LedgerRequests}

(***************************************************************************)
(* Text.  A String is the sequence of its pieces (a name, a separator, a   *)
(* digit); the empty String is the empty sequence.                         *)
(***************************************************************************)
\* u64::to_string: the decimal digits
u64_to_string(n) == [i \in 1..Len(to_string(n)) |-> <<"0", "1", "2", "3", "4", "5", "6", "7", "8", "9">>[to_string(n)[i] + 1]]

\* bool::to_string
bool_to_string(b) == IF b THEN <<"true">> ELSE <<"false">>

\* [String]::join
RECURSIVE join(_, _)
join(v, sep) ==
    IF v = <<>> THEN <<>>
    ELSE IF Len(v) = 1 THEN v[1]
    ELSE v[1] \o <<sep>> \o join(Tail(v), sep)

(***************************************************************************)
(* src/src/util.rs                                                         *)
(***************************************************************************)
\* dedup_ordered: seen.insert(item) is true when the item was not seen before
RECURSIVE dedup_filter(_, _)
dedup_filter(v, seen) ==
    IF v = <<>> THEN <<>>
    ELSE IF Head(v) \in seen THEN dedup_filter(Tail(v), seen)
    ELSE <<Head(v)>> \o dedup_filter(Tail(v), seen \cup {Head(v)})

\* a filter that drops an item only when it repeats the one right before it
dedup_ordered_adjacent(v) == dedup(v)

dedup_ordered(v) == dedup_filter(v, {})

\* parse_params: filter_map over (key, value), value.map(|v| (key, v.to_string()));
\* every caller passes Strings, whose to_string is a copy
RECURSIVE parse_params(_)
parse_params(params) ==
    IF params = <<>> THEN <<>>
    ELSE IF Head(params)[2] = None THEN parse_params(Tail(params))
    ELSE <<<<Head(params)[1], Head(params)[2][1]>>>> \o parse_params(Tail(params))

\* time_to_epoch_ms; a DateTime<Utc> is modelled by its timestamp_millis
time_to_epoch_ms(date) == (IF date = None THEN None ELSE Some(u64_to_string(date[1])))

(***************************************************************************)
(* The tokens file (src/src/schwab/schwab_auth.rs) and the market-data     *)
(* client (src/src/schwab/schwab_api.rs).  A JSON object is the sequence   *)
(* of its members <<key, value>>; the text of a document is one line per   *)
(* brace and member, so that a text cut short is a prefix of it.           *)
(***************************************************************************)
TokenKeys ==
    <<"access_token", "expires_in", "id_token", "refresh_token", "scope", "token_type">>

\* the token set of generation n
StoredTokenInfo(n) ==
    [access_token |-> <<"access", n>>, expires_in |-> <<"expires", n>>,
     id_token |-> <<"id", n>>, refresh_token |-> <<"refresh", n>>,
     scope |-> <<"scope", n>>, token_type |-> <<"type", n>>]

\* the JSON object the token endpoint answers with for generation n
TokenDocument(n) == [i \in 1..Len(TokenKeys) |-> <<TokenKeys[i], StoredTokenInfo(n)[TokenKeys[i]]>>]

\* serde_json::to_string_pretty of an object
to_string_pretty(value) == <<<<"{", <<>>>>>> \o value \o <<<<"}", <<>>>>>>

\* the keys of the members of a text
Keys(text) == {text[i][1] : i \in 1..Len(text)}

\* serde_json::from_str::<StoredTokenInfo>: the text is a whole object and
\* has every field of the record
from_str_StoredTokenInfo(text) ==
    IF /\ Len(text) >= 2
       /\ text[1][1] = "{"
       /\ text[Len(text)][1] = "}"
       /\ Keys(TokenDocument(0)) \subseteq Keys(text)
    THEN Some([k \in Keys(TokenDocument(0)) |->
                text[CHOOSE i \in 1..Len(text) : text[i][1] = k][2]])
    ELSE None

\* the tokens file: absent, or a text
NoFile == [exists |-> FALSE, text |-> <<>>]
File(text) == [exists |-> TRUE, text |-> text]

\* QuoteFields, PeriodType and FrequencyType with their Display

Display(variant) ==
    CASE variant = "Quote" -> <<"quote">>
      [] variant = "Fundamental" -> <<"fundamental">>
      [] variant = "Extended" -> <<"extended">>
      [] variant = "Reference" -> <<"reference">>
      [] variant = "Regular" -> <<"regular">>
      [] variant = "Day" -> <<"day">>
      [] variant = "Month" -> <<"month">>
      [] variant = "Year" -> <<"year">>
      [] variant = "Ytd" -> <<"ytd">>
      [] variant = "Minute" -> <<"minute">>
      [] variant = "Daily" -> <<"daily">>
      [] variant = "Weekly" -> <<"weekly">>
      [] variant = "Monthly" -> <<"monthly">>

\* the fields_string of get_quotes and quote
fields_string(fields) ==
    IF fields = None THEN <<>> ELSE join([i \in 1..Len(dedup_ordered(fields[1])) |-> Display(dedup_ordered(fields[1])[i])], ",")

\* get_quotes: the request URL is formatted with every key, an absent
\* parameter as the empty String
get_quotes(symbols, fields, indicative) ==
    [endpoint |-> "get_quotes", path |-> <<"quotes">>,
     query |-> <<
        <<"symbols", join(symbols, ",")>>,
        <<"fields", fields_string(fields)>>,
        <<"indicative", IF indicative = None THEN <<>> ELSE bool_to_string(indicative[1])>> >>]

\* urlencoding::encode: every byte that is not unreserved becomes %XX
encode(s) ==
    [i \in 1..Len(s) |->
        CASE s[i] = "$" -> "%24"
          [] s[i] = "/" -> "%2F"
          [] s[i] = " " -> "%20"
          [] OTHER -> s[i]]

\* quote: the fields parameter is always Some(fields_string)
quote(symbol_id, fields) ==
    [endpoint |-> "quote", path |-> encode(symbol_id) \o <<"quotes">>,
     query |-> parse_params(<< <<"fields", Some(fields_string(fields))>> >>)]

price_history(symbol, period_type, period, frequency_type, frequency, start_date, end_date, need_extended_hours_data, need_previous_close) ==
    [endpoint |-> "price_history", path |-> <<"pricehistory">>,
     query |-> parse_params(<<
        <<"symbol", Some(symbol)>>,
        <<"periodType", (IF period_type = None THEN None ELSE Some(Display(period_type[1])))>>,
        <<"period", (IF period = None THEN None ELSE Some(u64_to_string(period[1])))>>,
        <<"frequencyType", (IF frequency_type = None THEN None ELSE Some(Display(frequency_type[1])))>>,
        <<"frequency", (IF frequency = None THEN None ELSE Some(u64_to_string(frequency[1])))>>,
        <<"startDate", time_to_epoch_ms(start_date)>>,
        <<"endDate", time_to_epoch_ms(end_date)>>,
        <<"needExtendedHoursData", (IF need_extended_hours_data = None THEN None ELSE Some(bool_to_string(need_extended_hours_data[1])))>>,
        <<"needPreviousClose", (IF need_previous_close = None THEN None ELSE Some(bool_to_string(need_previous_close[1])))>> >>)]

\* what the server answers to a request: the status and the body; status 0
\* stands for a request that fails in transport
Body(n, json) == [of |-> n, json |-> json]
NoBody == Body(0, FALSE)
Response(status, body) == [status |-> status, body |-> body]

\* anyhow::Result<Value>
NoResult == [kind |-> "none", value |-> NoBody, error |-> ""]
Ok(value) == [kind |-> "Ok", value |-> value, error |-> ""]
Err(error) == [kind |-> "Err", value |-> NoBody, error |-> error]

\* serde_json::from_str::<Value> of response.text()
from_str_Value(body) == IF body.json THEN Some(body) ELSE None

\* the headers of a request: Accept and Authorization
Headers(authorization) ==
    [kind |-> "Ok", accept |-> "application/json", authorization |-> authorization,
     error |-> ""]
NoHeaders(error) == [kind |-> "Err", accept |-> "", authorization |-> <<>>, error |-> error]

\* construct_request_headers: read the tokens file, parse it, sign with the
\* access token found there
construct_request_headers(file) ==
    IF ~file.exists THEN NoHeaders("io")
    ELSE IF from_str_StoredTokenInfo(file.text) = None THEN NoHeaders("serde")
    ELSE Headers(<<"Bearer", from_str_StoredTokenInfo(file.text)[1].access_token>>)

\* a caller of SchwabApi that is in no call
NoRequest == [endpoint |-> "none", path |-> <<>>, query |-> <<>>]
ApiIdle(n, request, script, result) ==
    [pc |-> "idle", n |-> n, request |-> request, script |-> script,
     json_string |-> None, headers |-> NoHeaders(""), result |-> result]

(***************************************************************************)
(* SchwabAuth (src/src/schwab/schwab_auth.rs).  The pasted URL is a        *)
(* sequence of characters; indexes count from 0 as in Rust.                *)
(***************************************************************************)
\* str::find: the index of the first occurrence of pattern
find(text, pattern) ==
    LET hits == {i \in 0..(Len(text) - Len(pattern)) :
                    SubSeq(text, i + 1, i + Len(pattern)) = pattern}
    IN  IF hits = {} THEN None ELSE Some(CHOOSE i \in hits : \A j \in hits : i <= j)

\* str::replace: every occurrence of from, found left to right
RECURSIVE replace(_, _, _)
replace(text, from, to) ==
    IF Len(text) < Len(from) THEN text
    ELSE IF SubSeq(text, 1, Len(from)) = from
         THEN to \o replace(SubSeq(text, Len(from) + 1, Len(text)), from, to)
    ELSE <<Head(text)>> \o replace(Tail(text), from, to)

\* the patterns of extract_auth_code
CodeKey == <<"c", "o", "d", "e", "=">>
Ampersand == <<"&">>
EncodedAt == <<"%", "4", "0">>
At == <<"@">>

\* anyhow::Result<String>, or the panic of a slice whose start is beyond
\* its end
Code(kind, code) == [kind |-> kind, code |-> code]

\* extract_auth_code
extract_auth_code(url) ==
    LET code_start == find(url, CodeKey)
        code_end == IF find(url, Ampersand) = None THEN Len(url)
                    ELSE find(url, Ampersand)[1]
    IN  IF code_start = None THEN Code("Err", <<>>)
        ELSE IF code_start[1] + Len(CodeKey) > code_end THEN Code("Panic", <<>>)
        ELSE Code("Ok", replace(SubSeq(url, code_start[1] + Len(CodeKey) + 1, code_end),
                                EncodedAt, At))

\* construct_headers: Basic credentials and the form content type
construct_headers(app_key, app_secret) ==
    [authorization |-> <<"Basic", <<"base64", app_key, ":", app_secret>>>>,
     content_type |-> "application/x-www-form-urlencoded"]

\* construct_auth_payload
construct_auth_payload(redirect_uri, response_code) ==
    << <<"grant_type", "authorization_code">>, <<"code", response_code>>,
       <<"redirect_uri", redirect_uri>> >>

\* construct_refresh_payload
construct_refresh_payload(refresh_token) ==
    << <<"grant_type", "refresh_token">>, <<"refresh_token", refresh_token>> >>

\* REDIRECT_URI and SCHWAB_TOKEN_URL
REDIRECT_URI == "https://127.0.0.1"
SCHWAB_TOKEN_URL == [endpoint |-> "token", path |-> <<"oauth", "token">>, query |-> <<>>]

\* a POST to the token endpoint
TokenRequest(n, headers, payload) ==
    [method |-> "POST", by |-> "auth", call |-> n, url |-> SCHWAB_TOKEN_URL,
     authorization |-> headers.authorization, form |-> payload]

\* response.json::<StoredTokenInfo>() of refresh_tokens
json_StoredTokenInfo(value) == from_str_StoredTokenInfo(to_string_pretty(value))

\* the caller of SchwabAuth in no call
AuthIdle ==
    [pc |-> "idle", op |-> "none", n |-> 0, returned_url |-> <<>>,
     response_code |-> <<>>, json_string |-> <<>>, before |-> NoFile,
     tokens |-> None, result |-> "none"]

\* no helper or utility function under evaluation
NoUtil == [fn |-> "none", input |-> <<>>, output |-> None]

(***************************************************************************)
(* The level-one helpers of SchwabStreamer.  A field enum is the sequence  *)
(* of its variants in the order of their Display arms; the Display of a    *)
(* variant is its tag.                                                     *)
(***************************************************************************)
LevelOneEquitiesField ==
    <<"Symbol", "BidPrice", "AskPrice", "LastPrice", "BidSize", "AskSize",
      "AskId", "BidId", "TotalVolume", "LastSize", "HighPrice", "LowPrice",
      "ClosePrice", "ExchangeId", "Marginable", "Description", "LastId",
      "OpenPrice", "NetChange", "FiftyTwoWeekHigh", "FiftyTwoWeekLow",
      "PeRatio", "AnnualDividendAmount", "DividendYield", "Nav",
      "ExchangeName", "DueDate", "RegularMarketQuote", "RegularMarketTrade",
      "RegularMarketLastPrice", "RegularMarketLastSize",
      "RegularMarketNetChange", "SecurityStatus", "MarkPrice",
      "QuoteTimeInLong", "TradeTimeInLong", "RegularMarketTradeTimeInLong",
      "BidTime", "AskTime", "AskMicId", "BidMicId", "LastMicId",
      "NetPercentChange", "RegularMarketPercentChange", "MarkPriceNetChange",
      "MarkPricePercentChange", "HardToBorrowQuantity", "HardToBorrowRate",
      "HardToBorrow", "Shortable", "PostMarketNetChange",
      "PostMarketPercentChange">>

LevelOneOptionsField ==
    <<"Symbol", "Description", "BidPrice", "AskPrice", "LastPrice",
      "HighPrice", "LowPrice", "ClosePrice", "TotalVolume", "OpenInterest",
      "Volatility", "MoneyIntrinsicValue", "ExpirationYear", "Multiplier",
      "Digits", "OpenPrice", "BidSize", "AskSize", "LastSize", "NetChange",
      "StrikePrice", "ContractType", "Underlying", "ExpirationMonth",
      "Deliverables", "TimeValue", "ExpirationDay", "DaysToExpiration",
      "Delta", "Gamma", "Theta", "Vega", "Rho", "SecurityStatus",
      "TheoreticalOptionValue", "UnderlyingPrice", "UvExpirationType",
      "MarkPrice", "QuoteTimeInLong", "TradeTimeInLong", "Exchange",
      "ExchangeName", "LastTradingDay", "SettlementType", "NetPercentChange",
      "MarkPriceNetChange", "MarkPricePercentChange", "ImpliedYield",
      "IsPennyPilot", "OptionRoot", "FiftyTwoWeekHigh", "FiftyTwoWeekLow",
      "IndicativeAskPrice", "IndicativeBidPrice", "IndicativeQuoteTime",
      "ExerciseType">>

LevelOneFuturesField ==
    <<"Symbol", "BidPrice", "AskPrice", "LastPrice", "BidSize", "AskSize",
      "BidId", "AskId", "TotalVolume", "LastSize", "QuoteTime", "TradeTime",
      "HighPrice", "LowPrice", "ClosePrice", "ExchangeId", "Description",
      "LastId", "OpenPrice", "NetChange", "FuturePercentChange",
      "ExchangeName", "SecurityStatus", "OpenInterest", "Mark", "Tick",
      "TickAmount", "Product", "FuturePriceFormat", "FutureTradingHours",
      "FutureIsTradable", "FutureMultiplier", "FutureIsActive",
      "FutureSettlementPrice", "FutureActiveSymbol", "FutureExpirationDate",
      "ExpirationStyle", "AskTime", "BidTime", "QuotedInSession",
      "SettlementDate">>

\* the field enums of the futures options and forex services: the variants
\* are named by their tags
LevelOneFuturesOptionsField == [i \in 1..32 |-> <<"LevelOneFuturesOptionsField", i - 1>>]
LevelOneForexField == [i \in 1..30 |-> <<"LevelOneForexField", i - 1>>]

\* Display of a variant of a field enum
fmt(variants, field) == (CHOOSE i \in 1..Len(variants) : variants[i] = field) - 1

\* fields_as_strings of the helpers: the whole range of the service for an
\* empty list, else the tags of the fields given
fields_as_strings(fields, last, variants) ==
    IF fields = <<>> THEN [i \in 1..(last + 1) |-> i - 1]
    ELSE [i \in 1..Len(fields) |-> fmt(variants, fields[i])]

level_one_equities(keys, fields, command) ==
    StreamRequest("LEVELONE_EQUITIES", command, keys,
                  fields_as_strings(fields, 51, LevelOneEquitiesField))

level_one_options(keys, fields, command) ==
    StreamRequest("LEVELONE_OPTIONS", command, keys,
                  fields_as_strings(fields, 55, LevelOneOptionsField))

\* a level_one_futures whose range is 0..40, the end left out
level_one_futures_exclusive(keys, fields, command) ==
    StreamRequest("LEVELONE_FUTURES", command, keys,
                  fields_as_strings(fields, 39, LevelOneFuturesField))

level_one_futures(keys, fields, command) ==
    StreamRequest("LEVELONE_FUTURES", command, keys,
                  fields_as_strings(fields, 40, LevelOneFuturesField))

level_one_futures_options(keys, fields, command) ==
    StreamRequest("LEVELONE_FUTURES_OPTIONS", command, keys,
                  fields_as_strings(fields, 31, LevelOneFuturesOptionsField))

level_one_forex(keys, fields, command) ==
    StreamRequest("LEVELONE_FOREX", command, keys,
                  fields_as_strings(fields, 29, LevelOneForexField))

\* the helpers by name, and the field enum of each
Helpers ==
    {"level_one_equities", "level_one_options", "level_one_futures",
     "level_one_futures_options", "level_one_forex"}

FieldEnum(helper) ==
    CASE helper = "level_one_equities" -> LevelOneEquitiesField
      [] helper = "level_one_options" -> LevelOneOptionsField
      [] helper = "level_one_futures" -> LevelOneFuturesField
      [] helper = "level_one_futures_options" -> LevelOneFuturesOptionsField
      [] helper = "level_one_forex" -> LevelOneForexField

LevelOne(helper, keys, fields, command) ==
    CASE helper = "level_one_equities" -> level_one_equities(keys, fields, command)
      [] helper = "level_one_options" -> level_one_options(keys, fields, command)
      [] helper = "level_one_futures" -> level_one_futures(keys, fields, command)
      [] helper = "level_one_futures_options" ->
            level_one_futures_options(keys, fields, command)
      [] helper = "level_one_forex" -> level_one_forex(keys, fields, command)

(***************************************************************************)
(* State.                                                                  *)
(***************************************************************************)
VARIABLES
    subscriptions,    \* SchwabStreamerInner.subscriptions
    writer,           \* SchwabStreamerInner.writer: 0 is None, else the connection
    listener_handle,  \* SchwabStreamerInner.listener_handle: 0 is None, else the reader
    is_active,        \* SchwabStreamerInner.is_active
    request_id,       \* SchwabStreamer.request_id
    lock,             \* holder of SchwabStreamer.inner: "free" or the caller
    client,           \* position and locals of each caller
    nconn,            \* WebSocket connections made so far
    conn,             \* per connection: write half closed, delivery channel, receiver,
                      \* what the consumer received, frame read after the receiver left
    reader,           \* per connection: the reader task spawned by start
    wire,             \* frames written to the WebSockets, in order
    nframes,          \* inbound frames with data read so far
    hist,             \* history of the session, for stating the properties
    tokens_file,      \* the file at tokens_file_path
    api,              \* position and locals of the caller of SchwabApi
    auth,             \* position and locals of the caller of SchwabAuth
    http,             \* HTTP requests sent so far, in order
    util              \* a utility function under evaluation: input and result

\* the streaming session
session == <<subscriptions, writer, listener_handle, is_active, request_id, lock,
             client, nconn, conn, reader, wire, nframes, hist>>

\* the tokens file, the REST client, the authenticator and the utilities
rest == <<tokens_file, api, auth, http, util>>

vars == <<session, rest>>

\* no frame is waiting to be written
NoMessage == [requestid |-> 0 - 1, service |-> "", command |-> "", keys |-> <<>>, fields |-> <<>>]

\* what a send call found when it took the writer: the frames written so
\* far, the next request id and the ledger
NoBase == [wire |-> 0, id |-> 0, subs |-> EmptyMap]

Idle(op, result) ==
    [pc |-> "idle", op |-> op, requests |-> <<>>, queue |-> <<>>, w |-> 0,
     msg |-> NoMessage, base |-> NoBase, result |-> result]

NoEvent == [kind |-> "none", response |-> <<>>, data |-> <<>>]

SessionInit ==
    /\ subscriptions = EmptyMap
    /\ writer = 0
    /\ listener_handle = 0
    /\ is_active = FALSE
    /\ request_id = 0
    /\ lock = "free"
    /\ client = [t \in Clients |-> Idle("none", "none")]
    /\ nconn = 0
    /\ conn = [c \in Conns |-> [closed |-> FALSE, chan |-> <<>>, rx |-> "none",
                               got |-> <<>>, late |-> FALSE]]
    /\ reader = [c \in Conns |-> [status |-> "none", pc |-> "read", event |-> NoEvent,
                                 pending |-> <<>>]]
    /\ wire = <<>>
    /\ nframes = 0
    /\ hist = [connected |-> FALSE, started |-> FALSE, stopped |-> FALSE,
               failed |-> FALSE, acked |-> FALSE, assigned |-> <<>>, unknown |-> 0]

Init ==
    /\ SessionInit
    /\ tokens_file = NoFile
    /\ api = ApiIdle(0, NoRequest, <<>>, NoResult)
    /\ auth = AuthIdle
    /\ http = <<>>
    /\ util = NoUtil

(***************************************************************************)
(* Helpers of the actions.                                                 *)
(***************************************************************************)
\* a check of the writer that always finds one
IsSome_always(w) == TRUE

\* guard.writer is Some
IsSome(w) == w # 0

\* a write or close on the sink of connection c after a completed close fails
SinkClosed(c) == c \in Conns /\ conn[c].closed

\* JoinHandle::abort on the task behind listener_handle
Abort(readers, handle) ==
    [c \in Conns |->
        IF c = handle /\ readers[c].status = "running"
        THEN [status |-> "aborted", pc |-> "read", event |-> NoEvent, pending |-> <<>>]
        ELSE readers[c]]

\* a LOGIN response entry with content.code == 0 is among the entries
HasLoginAck(responses) ==
    \E i \in 1..Len(responses) :
        /\ responses[i].command = "LOGIN"
        /\ responses[i].content # None
        /\ responses[i].content[1].code = JsonUInt(0)

\* a data entry of the frame names a service that is no variant of StreamerData
HasUnknownService(event) ==
    \E i \in 1..Len(event.data) :
        event.data[i].service \notin LevelOneServices \cup {"ADMIN"}

\* connection c is the one the session writes to: its write half is in
\* guard.writer or in the hands of a send in progress
InUse(c) ==
    \/ writer = c
    \/ \E t \in Clients : client[t].pc \in {"send_loop", "send_io"} /\ client[t].w = c

Return(t, op, result) == client' = [client EXCEPT ![t] = Idle(op, result)]

(***************************************************************************)
(* start(): lock, connect, LOGIN, store the writer, spawn the reader,      *)
(* lock again, store the handle.                                           *)
(***************************************************************************)
\* self.inner.lock().await at the top of start
StartLock(t) ==
    /\ client[t].pc = "idle"
    /\ lock = "free"
    /\ nconn < MaxStarts
    /\ request_id < MaxId
    /\ lock' = t
    /\ client' = [client EXCEPT ![t] = [Idle("start", "none") EXCEPT !.pc = "start_connect"]]
    /\ UNCHANGED <<subscriptions, writer, listener_handle, is_active, request_id,
                   nconn, conn, reader, wire, nframes, hist>>
    /\ UNCHANGED rest

\* connect_async(..).await.expect(..): a failed connect panics the caller and
\* the unwinding drops the guard
StartConnect(t) ==
    /\ client[t].pc = "start_connect"
    /\ \E ok \in BOOLEAN :
          IF ok
          THEN /\ nconn' = nconn + 1
               /\ client' = [client EXCEPT ![t].pc = "start_login", ![t].w = nconn + 1]
               /\ conn' = [conn EXCEPT ![nconn + 1].rx = "start"]
               /\ UNCHANGED lock
          ELSE /\ lock' = "free"
               /\ client' = [client EXCEPT ![t] = [Idle("start", "panic") EXCEPT !.pc = "panicked"]]
               /\ UNCHANGED <<nconn, conn>>
    /\ UNCHANGED <<subscriptions, writer, listener_handle, is_active, request_id,
                   reader, wire, nframes, hist>>
    /\ UNCHANGED rest

\* build_message(LOGIN), write.send(..).await?, guard.writer = Some(write),
\* end of the guarded block, tokio::spawn(reader)
StartLogin(t) ==
    /\ client[t].pc = "start_login"
    /\ LET c == client[t].w
           built == build_message(request_id, "ADMIN", "LOGIN", <<>>, <<>>)
       IN /\ request_id' = built.next_id
          /\ \E ok \in BOOLEAN :
                IF built.ok /\ ok
                THEN /\ wire' = Append(wire, [conn |-> c, message |-> built.message])
                     /\ writer' = c
                     /\ reader' = [reader EXCEPT ![c].status = "running"]
                     /\ client' = [client EXCEPT ![t].pc = "start_store"]
                     /\ hist' = [hist EXCEPT !.connected = TRUE, !.stopped = FALSE,
                                             !.failed = FALSE,
                                             !.assigned = Append(@, built.message.requestid)]
                     /\ UNCHANGED conn
                ELSE /\ Return(t, "start", IF built.ok THEN "transport" ELSE "build")
                     /\ conn' = [conn EXCEPT ![c].rx = "dropped"]
                     /\ hist' = [hist EXCEPT !.assigned = Append(@, built.message.requestid)]
                     /\ UNCHANGED <<wire, writer, reader>>
          /\ lock' = "free"
    /\ UNCHANGED <<subscriptions, listener_handle, is_active, nconn, nframes>>
    /\ UNCHANGED rest

\* self.inner.lock().await.listener_handle = Some(..); Ok(rx)
StartStore(t) ==
    /\ client[t].pc = "start_store"
    /\ lock = "free"
    /\ listener_handle' = client[t].w
    /\ conn' = [conn EXCEPT ![client[t].w].rx = "held"]
    /\ Return(t, "start", "ok")
    /\ hist' = [hist EXCEPT !.started = TRUE]
    /\ UNCHANGED <<subscriptions, writer, is_active, request_id, lock, nconn,
                   reader, wire, nframes>>
    /\ UNCHANGED rest

(***************************************************************************)
(* send(requests)                                                          *)
(***************************************************************************)
\* a send that writes through a shared writer and holds no lock while it does
SendBegin_sharing(t, requests) ==
    /\ client[t].pc = "idle"
    /\ lock = "free"
    /\ request_id + Len(requests) <= MaxId
    /\ IF IsSome(writer)
       THEN /\ UNCHANGED <<lock, writer>>
            /\ client' = [client EXCEPT ![t] =
                              [pc |-> "send_loop", op |-> "send", requests |-> requests,
                               queue |-> requests, w |-> writer, msg |-> NoMessage,
                               base |-> [wire |-> Len(wire), id |-> request_id,
                                         subs |-> subscriptions],
                               result |-> "none"]]
       ELSE /\ Return(t, "send", "not_connected")
            /\ UNCHANGED <<lock, writer>>
    /\ UNCHANGED <<subscriptions, listener_handle, is_active, request_id, nconn,
                   conn, reader, wire, nframes, hist>>
    /\ UNCHANGED rest

\* self.inner.lock().await; guard.writer.take()
SendBegin(t, requests) ==
    /\ client[t].pc = "idle"
    /\ lock = "free"
    /\ request_id + Len(requests) <= MaxId
    /\ IF IsSome(writer)
       THEN /\ lock' = t
            /\ writer' = 0
            /\ client' = [client EXCEPT ![t] =
                              [pc |-> "send_loop", op |-> "send", requests |-> requests,
                               queue |-> requests, w |-> writer, msg |-> NoMessage,
                               base |-> [wire |-> Len(wire), id |-> request_id,
                                         subs |-> subscriptions],
                               result |-> "none"]]
       ELSE /\ Return(t, "send", "not_connected")
            /\ UNCHANGED <<lock, writer>>
    /\ UNCHANGED <<subscriptions, listener_handle, is_active, request_id, nconn,
                   conn, reader, wire, nframes, hist>>
    /\ UNCHANGED rest

\* one turn of the loop up to the write: record_request, build_message; or
\* the end of the loop: guard.writer = Some(writer); Ok(())
SendStep(t) ==
    /\ client[t].pc = "send_loop"
    /\ IF client[t].queue = <<>>
       THEN /\ writer' = client[t].w
            /\ lock' = "free"
            /\ Return(t, "send", "ok")
            /\ UNCHANGED <<subscriptions, request_id, hist>>
       ELSE LET request == Head(client[t].queue)
                built == build_message(request_id, request.service, request.command,
                                       request.keys, request.fields)
            IN /\ subscriptions' = record_request(subscriptions, request)
               /\ request_id' = built.next_id
               /\ hist' = [hist EXCEPT !.assigned = Append(@, built.message.requestid)]
               /\ IF built.ok
                  THEN /\ client' = [client EXCEPT ![t].pc = "send_io",
                                                   ![t].msg = built.message]
                       /\ UNCHANGED lock
                  ELSE /\ Return(t, "send", "build")
                       /\ lock' = "free"
               /\ UNCHANGED writer
    /\ UNCHANGED <<listener_handle, is_active, nconn, conn, reader, wire, nframes>>
    /\ UNCHANGED rest

\* a write whose failure is logged and the loop goes on with the next request
SendIo_continuing(t) ==
    /\ client[t].pc = "send_io"
    /\ \E ok \in BOOLEAN :
          IF ok /\ ~SinkClosed(client[t].w)
          THEN /\ wire' = Append(wire, [conn |-> client[t].w, message |-> client[t].msg])
               /\ client' = [client EXCEPT ![t].pc = "send_loop",
                                           ![t].queue = Tail(client[t].queue),
                                           ![t].msg = NoMessage]
               /\ UNCHANGED <<lock, hist>>
          ELSE /\ client' = [client EXCEPT ![t].pc = "send_loop",
                                           ![t].queue = Tail(client[t].queue),
                                           ![t].msg = NoMessage]
               /\ hist' = [hist EXCEPT !.failed = TRUE]
               /\ UNCHANGED <<lock, wire>>
    /\ UNCHANGED <<subscriptions, writer, listener_handle, is_active, request_id,
                   nconn, conn, reader, nframes>>
    /\ UNCHANGED rest

\* a write whose failure puts the writer back before the call returns
SendIo_restoring(t) ==
    /\ client[t].pc = "send_io"
    /\ \E ok \in BOOLEAN :
          IF ok /\ ~SinkClosed(client[t].w)
          THEN /\ wire' = Append(wire, [conn |-> client[t].w, message |-> client[t].msg])
               /\ client' = [client EXCEPT ![t].pc = "send_loop",
                                           ![t].queue = Tail(client[t].queue),
                                           ![t].msg = NoMessage]
               /\ UNCHANGED <<lock, hist, writer>>
          ELSE /\ Return(t, "send", "transport")
               /\ lock' = "free"
               /\ writer' = client[t].w
               /\ hist' = [hist EXCEPT !.failed = TRUE]
               /\ UNCHANGED wire
    /\ UNCHANGED <<subscriptions, listener_handle, is_active, request_id,
                   nconn, conn, reader, nframes>>
    /\ UNCHANGED rest

\* writer.send(..).await?
SendIo(t) ==
    /\ client[t].pc = "send_io"
    /\ \E ok \in BOOLEAN :
          IF ok /\ ~SinkClosed(client[t].w)
          THEN /\ wire' = Append(wire, [conn |-> client[t].w, message |-> client[t].msg])
               /\ client' = [client EXCEPT ![t].pc = "send_loop",
                                           ![t].queue = Tail(client[t].queue),
                                           ![t].msg = NoMessage]
               /\ UNCHANGED <<lock, hist>>
          ELSE /\ Return(t, "send", "transport")
               /\ lock' = "free"
               /\ hist' = [hist EXCEPT !.failed = TRUE]
               /\ UNCHANGED wire
    /\ UNCHANGED <<subscriptions, writer, listener_handle, is_active, request_id,
                   nconn, conn, reader, nframes>>
    /\ UNCHANGED rest

(***************************************************************************)
(* stop() and is_active()                                                  *)
(***************************************************************************)
\* self.inner.lock().await; with no writer the close is skipped
StopBegin(t) ==
    /\ client[t].pc = "idle"
    /\ lock = "free"
    /\ IF IsSome(writer)
       THEN /\ lock' = t
            /\ client' = [client EXCEPT ![t] = [Idle("stop", "none") EXCEPT !.pc = "stop_close"]]
            /\ UNCHANGED <<listener_handle, reader, hist>>
       ELSE /\ reader' = Abort(reader, listener_handle)
            /\ listener_handle' = 0
            /\ Return(t, "stop", "ok")
            /\ hist' = [hist EXCEPT !.stopped = hist.connected]
            /\ UNCHANGED lock
    /\ UNCHANGED <<subscriptions, writer, is_active, request_id, nconn, conn,
                   wire, nframes>>
    /\ UNCHANGED rest

\* writer.close().await?; listener_handle.take() and abort
StopClose(t) ==
    /\ client[t].pc = "stop_close"
    /\ \E ok \in BOOLEAN :
          IF ok
          THEN /\ conn' = [conn EXCEPT ![writer].closed = TRUE]
               /\ reader' = Abort(reader, listener_handle)
               /\ listener_handle' = 0
               /\ Return(t, "stop", "ok")
               /\ hist' = [hist EXCEPT !.stopped = TRUE]
          ELSE /\ Return(t, "stop", "transport")
               /\ hist' = [hist EXCEPT !.failed = TRUE]
               /\ UNCHANGED <<conn, reader, listener_handle>>
    /\ lock' = "free"
    /\ UNCHANGED <<subscriptions, writer, is_active, request_id, nconn, wire, nframes>>
    /\ UNCHANGED rest

\* self.inner.lock().await; inner.is_active.load(..)
IsActive(t) ==
    /\ client[t].pc = "idle"
    /\ lock = "free"
    /\ Return(t, "is_active", IF is_active THEN "true" ELSE "false")
    /\ UNCHANGED <<subscriptions, writer, listener_handle, is_active, request_id,
                   lock, nconn, conn, reader, wire, nframes, hist>>
    /\ UNCHANGED rest

(***************************************************************************)
(* The reader task and the consumer of the delivery channel.               *)
(***************************************************************************)
ReaderTo(c, pc, event, pending) ==
    reader' = [reader EXCEPT ![c] = [status |-> "running", pc |-> pc,
                                     event |-> event, pending |-> pending]]

ReaderExit(c) ==
    reader' = [reader EXCEPT ![c] = [status |-> "done", pc |-> "read",
                                     event |-> NoEvent, pending |-> <<>>]]

\* a read that ends only on an error
Terminal_error_only(event) == event.kind = "error"

\* read.next() yields None at the end of the stream or Some(Err(e)): both end
\* the loop of the reader
Terminal(event) == event.kind \in {"error", "eof"}

\* a channel that never makes the sender wait
HasPermit_unbounded(chan) == TRUE

\* the bounded channel has room for one more message
HasPermit(chan) == Len(chan) < ChannelCapacity

\* a channel that hands out the newest message first
Enqueue_front(chan, msg) == <<msg>> \o chan

\* a completed tx.send(msg): the message is the last of the queue
Enqueue(chan, msg) == Append(chan, msg)

\* read.next().await and the decoding of what it yields
ReaderRecv(c, event) ==
    /\ reader[c].status = "running"
    /\ reader[c].pc = "read"
    /\ nframes' = IF event.data # <<>> THEN nframes + 1 ELSE nframes
    /\ conn' = [conn EXCEPT ![c].late = (conn[c].late \/ conn[c].rx = "dropped")]
    /\ LET message == from_str(event)
           messages == IF message = None THEN <<>>
                       ELSE Stamped(Messages(message[1].data), nframes + 1)
       IN CASE Terminal(event) -> ReaderExit(c)
            [] ~Terminal(event) /\ message # None /\ event.response # <<>> ->
                  ReaderTo(c, "lock", event, messages)
            [] ~Terminal(event) /\ message # None /\ event.response = <<>>
                   /\ messages # <<>> ->
                  ReaderTo(c, "deliver", NoEvent, messages)
            [] OTHER -> UNCHANGED reader
    /\ hist' = [hist EXCEPT
                   !.failed = (hist.failed \/ (Terminal(event) /\ InUse(c))),
                   !.unknown = IF HasUnknownService(event) THEN nframes + 1 ELSE hist.unknown]
    /\ UNCHANGED <<subscriptions, writer, listener_handle, is_active, request_id,
                   lock, client, nconn, wire>>
    /\ UNCHANGED rest

\* a reader that keeps its guard after the loop over message.response
ReaderHandle_holding(c) ==
    /\ reader[c].status = "running"
    /\ reader[c].pc = "lock"
    /\ lock = "free"
    /\ is_active' = HandleResponses(is_active, reader[c].event.response)
    /\ hist' = [hist EXCEPT !.acked = (hist.acked \/ HasLoginAck(reader[c].event.response))]
    /\ IF reader[c].pending # <<>>
       THEN ReaderTo(c, "deliver", NoEvent, reader[c].pending)
       ELSE ReaderTo(c, "read", NoEvent, <<>>)
    /\ lock' = "reader"
    /\ UNCHANGED <<subscriptions, writer, listener_handle, request_id, client,
                   nconn, conn, wire, nframes>>
    /\ UNCHANGED rest

\* inner_clone.lock().await and the loop over message.response
ReaderHandle(c) ==
    /\ reader[c].status = "running"
    /\ reader[c].pc = "lock"
    /\ lock = "free"
    /\ is_active' = HandleResponses(is_active, reader[c].event.response)
    /\ hist' = [hist EXCEPT !.acked = (hist.acked \/ HasLoginAck(reader[c].event.response))]
    /\ IF reader[c].pending # <<>>
       THEN ReaderTo(c, "deliver", NoEvent, reader[c].pending)
       ELSE ReaderTo(c, "read", NoEvent, <<>>)
    /\ UNCHANGED <<subscriptions, writer, listener_handle, request_id, lock, client,
                   nconn, conn, wire, nframes>>
    /\ UNCHANGED rest

\* tx.send(msg).await: an error when the receiver is gone, a wait when the
\* channel is full
ReaderDeliver(c) ==
    /\ reader[c].status = "running"
    /\ reader[c].pc = "deliver"
    /\ IF conn[c].rx = "dropped"
       THEN /\ ReaderExit(c)
            /\ UNCHANGED conn
       ELSE /\ HasPermit(conn[c].chan)
            /\ conn' = [conn EXCEPT ![c].chan = Enqueue(conn[c].chan, Head(reader[c].pending))]
            /\ IF Len(reader[c].pending) > 1
               THEN ReaderTo(c, "deliver", NoEvent, Tail(reader[c].pending))
               ELSE ReaderTo(c, "read", NoEvent, <<>>)
    /\ UNCHANGED <<subscriptions, writer, listener_handle, is_active, request_id,
                   lock, client, nconn, wire, nframes, hist>>
    /\ UNCHANGED rest

\* the reader task has ended or was cancelled: its tx is dropped
SenderGone(c) == reader[c].status \in {"done", "aborted"}

\* rx.recv().await by the consumer: the oldest message, None once the channel
\* is empty and the sender is gone, a wait otherwise
ConsumerRecv(c) ==
    /\ conn[c].rx = "held"
    /\ IF conn[c].chan # <<>>
       THEN conn' = [conn EXCEPT ![c].chan = Tail(conn[c].chan),
                                 ![c].got = Append(conn[c].got, Head(conn[c].chan))]
       ELSE /\ SenderGone(c)
            /\ conn' = [conn EXCEPT ![c].rx = "closed"]
    /\ UNCHANGED <<subscriptions, writer, listener_handle, is_active, request_id,
                   lock, client, nconn, reader, wire, nframes, hist>>
    /\ UNCHANGED rest

\* the consumer drops the receiver
ConsumerDrop(c) ==
    /\ conn[c].rx = "held"
    /\ conn' = [conn EXCEPT ![c].rx = "dropped"]
    /\ UNCHANGED <<subscriptions, writer, listener_handle, is_active, request_id,
                   lock, client, nconn, reader, wire, nframes, hist>>
    /\ UNCHANGED rest

\* the server sends no more than limit frames with data
Within(event, limit) == event.data # <<>> => nframes < limit

(***************************************************************************)
(* SchwabApi: an endpoint reads the tokens file, sends one GET and returns *)
(* the body of the response parsed as JSON.                                *)
(***************************************************************************)
\* an endpoint up to the return of construct_request_headers().await?
Call(request, script) ==
    /\ api.pc = "idle"
    /\ api.n < MaxCalls
    /\ LET headers == construct_request_headers(tokens_file)
           json_string == IF tokens_file.exists THEN Some(tokens_file.text) ELSE None
       IN  api' = IF headers.kind = "Err"
                  THEN [ApiIdle(api.n + 1, request, script, Err(headers.error))
                           EXCEPT !.json_string = json_string]
                  ELSE [ApiIdle(api.n + 1, request, script, NoResult)
                           EXCEPT !.pc = "send", !.json_string = json_string,
                                  !.headers = headers]
    /\ UNCHANGED <<tokens_file, auth, http, util>>
    /\ UNCHANGED session

\* reqwest_client.get(request_url).headers(headers).send(): the request
\* goes out
Send ==
    /\ api.pc = "send"
    /\ http' = Append(http, [method |-> "GET", by |-> "api", call |-> api.n,
                             url |-> api.request,
                             authorization |-> api.headers.authorization,
                             form |-> <<>>])
    /\ api' = [api EXCEPT !.pc = "await"]
    /\ UNCHANGED <<tokens_file, auth, util>>
    /\ UNCHANGED session

\* .await? on the send, then serde_json::from_str(response.text().await?):
\* whatever the status, the body is parsed and returned
Receive ==
    /\ api.pc = "await"
    /\ LET response == Head(api.script)
           result == IF response.status = 0 THEN Err("transport")
                     ELSE IF from_str_Value(response.body) = None THEN Err("serde")
                     ELSE Ok(from_str_Value(response.body)[1])
       IN  api' = [ApiIdle(api.n, api.request, api.script, result)
                      EXCEPT !.json_string = api.json_string]
    /\ UNCHANGED <<tokens_file, auth, http, util>>
    /\ UNCHANGED session

(***************************************************************************)
(* SchwabAuth: authorize reads the pasted URL, exchanges the code for the  *)
(* tokens and writes them to the tokens file; refresh_tokens exchanges a   *)
(* refresh token for a new token set and returns it.                       *)
(***************************************************************************)
\* status().is_success()
is_success(response) == response.status >= 200 /\ response.status < 300

\* authorize up to the call of retrieve_tokens: the line read from stdin,
\* extract_auth_code(&returned_url)?
Authorize(returned_url) ==
    /\ auth.pc = "idle"
    /\ auth.n < MaxGrants
    /\ LET response_code == extract_auth_code(returned_url)
       IN  auth' = [AuthIdle EXCEPT
                       !.op = "authorize", !.n = auth.n + 1, !.before = tokens_file,
                       !.returned_url = returned_url,
                       !.response_code = response_code.code,
                       !.pc = IF response_code.kind = "Ok" THEN "retrieve" ELSE "idle",
                       !.result = CASE response_code.kind = "Ok" -> "none"
                                    [] response_code.kind = "Err" -> "'code=' not found in URL"
                                    [] response_code.kind = "Panic" -> "panic"]
    /\ UNCHANGED <<tokens_file, api, http, util>>
    /\ UNCHANGED session

\* retrieve_tokens: the POST with the authorization code goes out
RetrieveSend ==
    /\ auth.pc = "retrieve"
    /\ http' = Append(http, TokenRequest(auth.n, construct_headers("key", "secret"),
                                         construct_auth_payload(REDIRECT_URI,
                                                                auth.response_code)))
    /\ auth' = [auth EXCEPT !.pc = "retrieving"]
    /\ UNCHANGED <<tokens_file, api, util>>
    /\ UNCHANGED session

\* retrieve_tokens returns; on success authorize renders the answer with
\* serde_json::to_string_pretty
RetrieveReceive(response) ==
    /\ auth.pc = "retrieving"
    /\ auth' = IF response.status = 0
               THEN [auth EXCEPT !.pc = "idle", !.result = "transport"]
               ELSE IF ~is_success(response)
               THEN [auth EXCEPT !.pc = "idle", !.result = "Failed to retrieve tokens"]
               ELSE [auth EXCEPT !.pc = "create",
                                 !.json_string = to_string_pretty(response.value)]
    /\ UNCHANGED <<tokens_file, api, http, util>>
    /\ UNCHANGED session

\* fs::write, first half: the file is created or truncated
Create(ok) ==
    /\ auth.pc = "create"
    /\ IF ok
       THEN /\ tokens_file' = File(<<>>)
            /\ auth' = [auth EXCEPT !.pc = "write_all"]
       ELSE /\ tokens_file' = tokens_file
            /\ auth' = [auth EXCEPT !.pc = "idle", !.result = "io"]
    /\ UNCHANGED <<api, http, util>>
    /\ UNCHANGED session

\* fs::write, second half: the text is written; authorize returns
WriteAll(ok) ==
    /\ auth.pc = "write_all"
    /\ tokens_file' = IF ok THEN File(auth.json_string) ELSE tokens_file
    /\ auth' = [auth EXCEPT !.pc = "idle", !.result = IF ok THEN "Ok" ELSE "io"]
    /\ UNCHANGED <<api, http, util>>
    /\ UNCHANGED session

\* refresh_tokens up to the send: the POST with the refresh token goes out
Refresh(refresh_token) ==
    /\ auth.pc = "idle"
    /\ auth.n < MaxGrants
    /\ http' = Append(http, TokenRequest(auth.n + 1, construct_headers("key", "secret"),
                                         construct_refresh_payload(refresh_token)))
    /\ auth' = [AuthIdle EXCEPT !.op = "refresh_tokens", !.n = auth.n + 1,
                                !.before = tokens_file, !.pc = "refreshing"]
    /\ UNCHANGED <<tokens_file, api, util>>
    /\ UNCHANGED session

\* a refresh_tokens that saves the new token set to the tokens file
RefreshReceive_storing(response) ==
    /\ auth.pc = "refreshing"
    /\ auth' = [auth EXCEPT !.pc = "idle",
                            !.result = IF is_success(response) THEN "Ok" ELSE "error"]
    /\ tokens_file' = IF is_success(response) THEN File(to_string_pretty(response.value))
                      ELSE tokens_file
    /\ UNCHANGED <<api, http, util>>
    /\ UNCHANGED session

\* refresh_tokens returns: the new StoredTokenInfo on success, the error
\* otherwise; the tokens file is not touched
RefreshReceive(response) ==
    /\ auth.pc = "refreshing"
    /\ auth' = IF response.status = 0
               THEN [auth EXCEPT !.pc = "idle", !.result = "transport"]
               ELSE IF ~is_success(response)
               THEN [auth EXCEPT !.pc = "idle", !.result = "Failed to refresh tokens"]
               ELSE IF json_StoredTokenInfo(response.value) = None
               THEN [auth EXCEPT !.pc = "idle", !.result = "serde"]
               ELSE [auth EXCEPT !.pc = "idle", !.result = "Ok",
                                 !.tokens = json_StoredTokenInfo(response.value)]
    /\ UNCHANGED <<tokens_file, api, http, util>>
    /\ UNCHANGED session

(***************************************************************************)
(* A level-one helper: builds the request from its arguments; it takes no  *)
(* lock and touches no field of the session.                               *)
(***************************************************************************)
Helper(helper, keys, fields, command) ==
    /\ util' = [fn |-> helper, input |-> <<keys, fields, command>>,
                output |-> Some(LevelOne(helper, keys, fields, command))]
    /\ UNCHANGED <<tokens_file, api, auth, http>>
    /\ UNCHANGED session

(***************************************************************************)
(* dedup_ordered applied to a vector, and again to its result.             *)
(***************************************************************************)
DedupOrdered ==
    /\ util.fn = "none"
    /\ util' = [fn |-> "dedup_ordered", input |-> util.input,
                output |-> Some(dedup_ordered(util.input[1]))]
    /\ UNCHANGED <<tokens_file, api, auth, http>>
    /\ UNCHANGED session

DedupOrderedAgain ==
    /\ util.fn = "dedup_ordered"
    /\ util' = [fn |-> "dedup_ordered twice", input |-> util.input,
                output |-> Some(dedup_ordered(util.output[1]))]
    /\ UNCHANGED <<tokens_file, api, auth, http>>
    /\ UNCHANGED session

(***************************************************************************)
(* Specifications.                                                         *)
(***************************************************************************)
\* the callers: two clones of the session calling start, send and stop in
\* any interleaving, the server acknowledging the LOGIN or failing
Next ==
    \/ StartLock("owner")
    \/ StartConnect("owner")
    \/ StartLogin("owner")
    \/ StartStore("owner")
    \/ \E t \in Clients : \E requests \in SessionBatches(t) : SendBegin(t, requests)
    \/ \E t \in Clients : SendStep(t)
    \/ \E t \in Clients : SendIo(t)
    \/ \E t \in Clients : StopBegin(t)
    \/ \E t \in Clients : StopClose(t)
    \/ \E c \in Conns : \E event \in SessionEvents : ReaderRecv(c, event)
    \/ \E c \in Conns : ReaderHandle(c)

Spec == Init /\ [][Next]_vars

\* the ledger: one caller sending single requests of the ledger scenarios,
\* the server silent
LedgerNext ==
    \/ StartLock("owner")
    \/ StartConnect("owner")
    \/ StartLogin("owner")
    \/ StartStore("owner")
    \/ \E requests \in LedgerBatches : SendBegin("owner", requests)
    \/ SendStep("owner")
    \/ SendIo("owner")

LedgerSpec == Init /\ [][LedgerNext]_vars

\* the inbound side: one caller starting once, stopping and reading
\* is_active, the server sending any frame, the consumer receiving or leaving
ReaderNext ==
    \/ nconn = 0 /\ StartLock("owner")
    \/ StartConnect("owner")
    \/ StartLogin("owner")
    \/ StartStore("owner")
    \/ StopBegin("owner")
    \/ StopClose("owner")
    \/ IsActive("owner")
    \/ \E c \in Conns : \E event \in SocketEvents :
          Within(event, MaxFrames) /\ ReaderRecv(c, event)
    \/ \E c \in Conns : ReaderHandle(c)
    \/ \E c \in Conns : ReaderDeliver(c)
    \/ \E c \in Conns : ConsumerRecv(c)
    \/ \E c \in Conns : ConsumerDrop(c)

ReaderSpec == Init /\ [][ReaderNext]_vars

\* the delivery: one caller starting once and stopping, the server sending
\* data of any shape, the consumer receiving or leaving
DeliveryNext ==
    \/ nconn = 0 /\ StartLock("owner")
    \/ StartConnect("owner")
    \/ StartLogin("owner")
    \/ StartStore("owner")
    \/ StopBegin("owner")
    \/ StopClose("owner")
    \/ \E c \in Conns : \E event \in DeliveryEvents :
          Within(event, MaxFrames) /\ ReaderRecv(c, event)
    \/ \E c \in Conns : ReaderHandle(c)
    \/ \E c \in Conns : ReaderDeliver(c)
    \/ \E c \in Conns : ConsumerRecv(c)
    \/ \E c \in Conns : ConsumerDrop(c)

DeliverySpec == Init /\ [][DeliveryNext]_vars

\* the full channel: the server sending more quotes than the channel holds,
\* the consumer receiving at any pace or leaving, the caller stopping
ChannelNext ==
    \/ nconn = 0 /\ StartLock("owner")
    \/ StartConnect("owner")
    \/ StartLogin("owner")
    \/ StartStore("owner")
    \/ StopBegin("owner")
    \/ StopClose("owner")
    \/ \E c \in Conns : \E event \in ChannelEvents :
          Within(event, MaxBurst) /\ ReaderRecv(c, event)
    \/ \E c \in Conns : ReaderDeliver(c)
    \/ \E c \in Conns : ConsumerRecv(c)
    \/ \E c \in Conns : ConsumerDrop(c)

ChannelSpec == Init /\ [][ChannelNext]_vars

(***************************************************************************)
(* The market-data client alone: a caller making REST calls one after the  *)
(* other, the server answering each request of a call as its script says.  *)
(***************************************************************************)
Symbol == <<"AAPL">>

\* the arguments of the calls
FieldsArgs == {None, Some(<<"Quote", "Fundamental", "Quote">>)}
Index == <<"$", "SPX">>
PriceHistoryArgs ==
    [period_type : {None, Some("Day")}, period : {None, Some(10)},
     need_previous_close : {None, Some(FALSE)}]

\* price_history with the arguments a and no other optional argument
PriceHistory(a) ==
    price_history(Symbol, a.period_type, a.period, None, None, None, None, None,
                  a.need_previous_close)

Requests ==
    {get_quotes(<<Symbol>>, fields, indicative) :
        fields \in FieldsArgs, indicative \in {None, Some(TRUE)}}
    \cup {quote(Index, fields) : fields \in FieldsArgs}
    \cup {PriceHistory(a) : a \in PriceHistoryArgs}

Scripts ==
    {<<Response(status, Body(1, json))>> :
        status \in {200, 400, 403, 404, 500}, json \in BOOLEAN}
    \cup {<<Response(401, Body(1, TRUE)), Response(status, Body(2, TRUE))>> :
            status \in {200, 401}}
    \cup {<<Response(0, NoBody)>>}

RestInit ==
    /\ SessionInit
    /\ tokens_file \in {NoFile, File(to_string_pretty(TokenDocument(0)))}
    /\ api = ApiIdle(0, NoRequest, <<>>, NoResult)
    /\ auth = AuthIdle
    /\ http = <<>>
    /\ util = NoUtil

RestNext ==
    \/ \E request \in Requests : \E script \in Scripts : Call(request, script)
    \/ Send
    \/ Receive

RestSpec == RestInit /\ [][RestNext]_vars

(***************************************************************************)
(* The authenticator alone: a caller of authorize and refresh_tokens, the  *)
(* user pasting any of the URLs, the token endpoint answering.             *)
(***************************************************************************)
Base == <<"https://127.0.0.1/", "?">>
Other == <<"s", "=", "x">>
CodeValues == {<<"a">>, <<"a">> \o EncodedAt \o <<"b">>, <<>>}

Urls ==
    {Base \o CodeKey \o v : v \in CodeValues}
    \cup {Base \o CodeKey \o v \o Ampersand \o Other : v \in CodeValues}
    \cup {Base \o Other \o Ampersand \o CodeKey \o v : v \in CodeValues}
    \cup {Base \o Other \o Ampersand \o CodeKey \o v \o Ampersand \o Other :
            v \in CodeValues}
    \cup {Base \o Other, Base}

\* what the token endpoint answers to the g-th token request
TokenResponses(g) ==
    {[status |-> 200, value |-> TokenDocument(g)],
     [status |-> 200, value |-> <<>>],
     [status |-> 400, value |-> <<>>],
     [status |-> 0, value |-> <<>>]}

AuthNext ==
    \* read_line keeps the newline that ends the line, if there is one
    \/ \E url \in Urls : \E end \in {<<>>, <<"\n">>} : Authorize(url \o end)
    \/ RetrieveSend
    \/ \E response \in TokenResponses(auth.n) : RetrieveReceive(response)
    \/ \E ok \in BOOLEAN : Create(ok)
    \/ \E ok \in BOOLEAN : WriteAll(ok)
    \/ \E g \in 0..MaxGrants : Refresh(StoredTokenInfo(g).refresh_token)
    \/ \E response \in TokenResponses(auth.n) : RefreshReceive(response)

AuthSpec == RestInit /\ [][AuthNext]_vars

\* a reader signing requests while authorize replaces the token set
TokenNext ==
    \/ Authorize(Base \o CodeKey \o <<"a">> \o Ampersand \o Other)
    \/ RetrieveSend
    \/ \E response \in TokenResponses(auth.n) : RetrieveReceive(response)
    \/ \E ok \in BOOLEAN : Create(ok)
    \/ \E ok \in BOOLEAN : WriteAll(ok)
    \/ \E script \in Scripts : Call(get_quotes(<<Symbol>>, None, None), script)
    \/ Send
    \/ Receive

TokenSpec == RestInit /\ [][TokenNext]_vars

(***************************************************************************)
(* The helpers in use: a caller starting the session, building requests    *)
(* with the helpers and sending what it built.                             *)
(***************************************************************************)
\* the field lists a caller passes: none, or fields out of tag order with one
\* repeated
HelperNext ==
    \/ nconn = 0 /\ StartLock("owner")
    \/ StartConnect("owner")
    \/ StartLogin("owner")
    \/ StartStore("owner")
    \/ \E helper \in Helpers : \E fields \in {<<>>, <<FieldEnum(helper)[4], FieldEnum(helper)[Len(FieldEnum(helper))],
                                 FieldEnum(helper)[4]>>} :
          Helper(helper, <<"AAPL">>, fields, "SUBS")
    \/ util.output # None /\ SendBegin("owner", util.output)
    \/ SendStep("owner")
    \/ SendIo("owner")

HelperSpec == Init /\ [][HelperNext]_vars

(***************************************************************************)
(* The session mutex: the owner starting once, sending and stopping, both  *)
(* callers reading is_active, the server sending quotes with and without a *)
(* LOGIN response, and a consumer that never receives.                     *)
(***************************************************************************)
MutexNext ==
    \/ nconn = 0 /\ StartLock("owner")
    \/ StartConnect("owner")
    \/ StartLogin("owner")
    \/ StartStore("owner")
    \/ SendBegin("owner", <<SubsAapl>>)
    \/ SendStep("owner")
    \/ SendIo("owner")
    \/ StopBegin("owner")
    \/ StopClose("owner")
    \/ \E t \in Clients : IsActive(t)
    \/ \E c \in Conns :
          \E event \in ChannelEvents
                        \cup {TopLevelMessage(<<LoginAck(JsonUInt(0))>>,
                                              <<Equities(<<Aapl, Msft>>)>>)} :
              Within(event, MaxBurst) /\ ReaderRecv(c, event)
    \/ \E c \in Conns : ReaderHandle(c)
    \/ \E c \in Conns : ReaderDeliver(c)

MutexSpec == Init /\ [][MutexNext]_vars

(***************************************************************************)
(* The inbound frames and the session state: the owner starting more than  *)
(* once, sending and stopping, the server sending any frame without data.  *)
(***************************************************************************)
FrameNext ==
    \/ StartLock("owner")
    \/ StartConnect("owner")
    \/ StartLogin("owner")
    \/ StartStore("owner")
    \/ SendBegin("owner", <<SubsAapl>>)
    \/ SendStep("owner")
    \/ SendIo("owner")
    \/ StopBegin("owner")
    \/ StopClose("owner")
    \/ \E c \in Conns : \E event \in SocketEvents :
          event.data = <<>> /\ ReaderRecv(c, event)
    \/ \E c \in Conns : ReaderHandle(c)

FrameSpec == Init /\ [][FrameNext]_vars

(***************************************************************************)
(* The utilities: dedup_ordered on every vector of quote fields up to the  *)
(* length bound.                                                           *)
(***************************************************************************)
UtilInit ==
    /\ SessionInit
    /\ tokens_file = NoFile
    /\ api = ApiIdle(0, NoRequest, <<>>, NoResult)
    /\ auth = AuthIdle
    /\ http = <<>>
    /\ util \in {[fn |-> "none", input |-> <<v>>, output |-> None] :
                    v \in UNION {[1..n -> {"Quote", "Fundamental", "Extended"}] : n \in 0..MaxLen}}

UtilNext ==
    \/ DedupOrdered
    \/ DedupOrderedAgain

UtilSpec == UtilInit /\ [][UtilNext]_vars

(***************************************************************************)
(* Properties of the session.                                              *)
(***************************************************************************)
Range(f) == {f[i] : i \in DOMAIN f}

\* the (service, key, fields) entries of a ledger
Entries(subs) ==
    UNION {{<<s, k, subs[s][k]>> : k \in DOMAIN subs[s]} : s \in DOMAIN subs}

\* caller t issues a send in this step
SendIssued(t) == \E requests \in SessionBatches(t) : SendBegin(t, requests)

\* the call of t returns in this step without having been accepted
Rejected(t) == client'[t].pc = "idle" /\ client'[t].result = "not_connected"

\* caller t records the request at the head of its queue in this step
Records(t, command) ==
    /\ SendStep(t)
    /\ client[t].queue # <<>>
    /\ Head(client[t].queue).command = command

\* a stop() call of t returns in this step
StopReturns(t) == StopClose(t) \/ (StopBegin(t) /\ client'[t].pc = "idle")

\* C1: the request ids of the frames written to the WebSocket are 0, 1, 2, ...
\* in the order written: the first is 0 and consecutive ids differ by 1.
C1_WrittenIdsDense ==
    \A i \in 1..Len(wire) : wire[i].message.requestid = i - 1

\* C2: once stop() has returned on a started session, or the session has
\* suffered a socket-level failure, a send is rejected with the not-connected
\* error at once: no request is recorded and no write is attempted.
C2_SendAfterTeardownRejected ==
    [][\A t \in Clients :
          ((hist.stopped \/ hist.failed) /\ SendIssued(t)) => Rejected(t)]_vars

\* C3: when stop() returns on a started session, with Ok or with the error
\* of the close, no reader task of the session is running.
C3_StopAbortsReader ==
    [][\A t \in Clients :
          (hist.started /\ StopReturns(t))
              => \A c \in Conns : reader'[c].status # "running"]_vars

\* C4: while no start() has stored a writer (the session is new, or every
\* start so far failed), a send returns the not-connected error at once,
\* writes no frame, leaves the ledger unchanged and consumes no request id.
C4_SendBeforeStartRejected ==
    [][\A t \in Clients :
          (~hist.connected /\ SendIssued(t))
              => /\ Rejected(t)
                 /\ wire' = wire
                 /\ subscriptions' = subscriptions
                 /\ request_id' = request_id]_vars

\* C4 witness: a start failed at its LOGIN write, no writer was ever stored,
\* and a send has come back with the not-connected error.
C4_Witness ==
    /\ ~hist.connected
    /\ nconn > 0
    /\ \E t \in Clients : client[t].op = "send" /\ client[t].result = "not_connected"

\* C5: a send issued after start() has returned and while is_active is false
\* is rejected, and no frame of a send is written while is_active is false.
C5_SendOnlyWhenActive ==
    [][\A t \in Clients :
          /\ (hist.started /\ ~is_active /\ SendIssued(t)) => Rejected(t)
          /\ (SendIo(t) /\ Len(wire') > Len(wire)) => is_active]_vars

\* C6: is_active is true exactly when the reader has processed a response
\* entry LOGIN whose content.code is 0; it is false before, whatever other
\* entries (LOGIN with another code, without code, without content, other
\* commands) were processed.
C6_ActiveIffLoginAck == is_active = hist.acked

\* C6 witness: the ack was processed and is_active() has returned true.
C6_Witness ==
    /\ is_active
    /\ client["owner"].op = "is_active"
    /\ client["owner"].result = "true"

\* C7: recording Subs(service, keys, fields) makes the field list of every
\* listed key equal to the Subs fields, whatever the key held before, and
\* leaves every other entry of the ledger as it was.
C7_SubsReplaces ==
    [][\A t \in Clients :
          Records(t, "SUBS") =>
              LET r == Head(client[t].queue)
                  other(e) == ~(e[1] = r.service /\ e[2] \in Range(r.keys))
              IN /\ r.service \in DOMAIN subscriptions'
                 /\ \A k \in Range(r.keys) :
                        /\ k \in DOMAIN subscriptions'[r.service]
                        /\ subscriptions'[r.service][k] = r.fields
                 /\ {e \in Entries(subscriptions') : other(e)}
                        = {e \in Entries(subscriptions) : other(e)}]_vars

\* the frame before the last written one is an accepted request with this
\* command on the service and a key of message m
Preceded(m, command) ==
    \E i \in 1..Len(wire) :
        /\ wire[i].message.command = command
        /\ wire[i].message.service = m.service
        /\ Range(wire[i].message.keys) \cap Range(m.keys) # {}
        /\ wire[i].message.fields # m.fields

\* C7 witness: a Subs was recorded for a key that an earlier Add with other
\* fields had filled, and the key now holds the Subs fields.
C7_Witness ==
    \E t \in Clients :
        /\ client[t].pc = "send_io"
        /\ client[t].msg.command = "SUBS"
        /\ Preceded(client[t].msg, "ADD")
        /\ \A k \in Range(client[t].msg.keys) :
              subscriptions[client[t].msg.service][k] = client[t].msg.fields

\* C8: recording Add(service, keys, fields) on a key holding E (nothing when
\* absent) leaves the key with the union of E and the added fields, free of
\* duplicates and in ascending String order; the result is fixed by the set
\* of fields, so it does not depend on the order of the Adds.
C8_AddIsSortedUnion ==
    [][\A t \in Clients :
          Records(t, "ADD") =>
              LET r == Head(client[t].queue)
                  before == GetOrDefault(subscriptions, r.service)
              IN \A k \in Range(r.keys) :
                    LET stored == subscriptions'[r.service][k]
                    IN /\ Range(stored) = Range(GetOrDefault(before, k)) \cup Range(r.fields)
                       /\ \A i \in 1..(Len(stored) - 1) : StrLess(stored[i], stored[i + 1])]_vars

\* C8 witness: an Add was recorded after an Add with other fields on the same
\* key, and the key holds more fields than either Add gave.
C8_Witness ==
    \E t \in Clients :
        /\ client[t].pc = "send_io"
        /\ client[t].msg.command = "ADD"
        /\ Preceded(client[t].msg, "ADD")
        /\ \E k \in Range(client[t].msg.keys) :
              Len(subscriptions[client[t].msg.service][k]) = 3

\* C9: recording Unsubs(service, keys) removes exactly the entries of the
\* listed keys of that service; recording View, Login or Logout, and the
\* LOGIN frame of start, change no entry.
C9_UnsubsRemovesOthersKeep ==
    [][\A t \in Clients :
          /\ Records(t, "UNSUBS") =>
                LET r == Head(client[t].queue)
                IN Entries(subscriptions') =
                       {e \in Entries(subscriptions) :
                            ~(e[1] = r.service /\ e[2] \in Range(r.keys))}
          /\ (Records(t, "VIEW") \/ Records(t, "LOGIN") \/ Records(t, "LOGOUT"))
                => Entries(subscriptions') = Entries(subscriptions)
          /\ StartLogin(t) => Entries(subscriptions') = Entries(subscriptions)]_vars

\* C9 witness: an Unsubs was recorded for a key subscribed before, the key is
\* gone and another key of the service is still there.
C9_Witness ==
    \E t \in Clients :
        /\ client[t].pc = "send_io"
        /\ client[t].msg.command = "UNSUBS"
        /\ Preceded(client[t].msg, "SUBS")
        /\ Range(client[t].msg.keys) \cap DOMAIN subscriptions[client[t].msg.service] = {}
        /\ DOMAIN subscriptions[client[t].msg.service] # {}

\* C10: every field list stored in the ledger is free of duplicates and in
\* ascending order of the field tags.
C10_LedgerSortedUnique ==
    \A s \in DOMAIN subscriptions :
        \A k \in DOMAIN subscriptions[s] :
            \A i \in 1..(Len(subscriptions[s][k]) - 1) :
                subscriptions[s][k][i] < subscriptions[s][k][i + 1]

\* the ledger after the requests were recorded one after the other
RECURSIVE ApplyAll(_, _)
ApplyAll(subs, requests) ==
    IF requests = <<>> THEN subs
    ELSE ApplyAll(record_request(subs, Head(requests)), Tail(requests))

\* the send call of t returns Ok in this step
SendReturnsOk(t) == SendStep(t) /\ client[t].queue = <<>>

\* C11: when a send call carrying r1..rn returns Ok, the frames written
\* since the call took the writer are exactly n, frame k is request rk with
\* request id N + k - 1, N being the id that was next when the call began, and
\* the ledger is the ledger the call found with r1..rn recorded in that order.
C11_SendWritesBatchInOrder ==
    [][\A t \in Clients :
          SendReturnsOk(t) =>
              LET requests == client[t].requests
                  base == client[t].base
              IN /\ Len(wire) = base.wire + Len(requests)
                 /\ \A k \in 1..Len(requests) :
                        wire[base.wire + k].message =
                            [requestid |-> base.id + k - 1,
                             service |-> requests[k].service,
                             command |-> requests[k].command,
                             keys |-> requests[k].keys,
                             fields |-> requests[k].fields]
                 /\ subscriptions = ApplyAll(base.subs, requests)]_vars

\* C11 witness: a send of two requests has returned Ok and its two frames
\* are the last two on the wire, after the LOGIN frame.
C11_Witness ==
    /\ client["owner"].op = "send"
    /\ client["owner"].result = "ok"
    /\ Len(wire) >= 3
    /\ wire[Len(wire) - 1].message.command = "SUBS"
    /\ wire[Len(wire)].message.command = "UNSUBS"

\* C12: the request ids handed out by start and by the send calls of all
\* clones, in the order they were handed out, are strictly increasing: no id
\* is handed out twice.
C12_AssignedIdsIncrease ==
    \A i \in 1..Len(hist.assigned) :
        \A j \in 1..Len(hist.assigned) :
            i < j => hist.assigned[i] < hist.assigned[j]

\* C12 witness: while a start call of one clone has not yet returned, a send
\* call of another clone got an id after the LOGIN and returned Ok.
C12_Witness ==
    /\ client["owner"].pc = "start_store"
    /\ client["worker"].op = "send"
    /\ client["worker"].result = "ok"
    /\ Len(hist.assigned) >= 2
    /\ \E i \in 1..Len(wire) : wire[i].message.command = "ADD"

\* C13: the first frame written to the WebSocket is the ADMIN LOGIN frame
\* with request id 0; no frame of a send is written before it.
C13_FirstFrameIsLoginZero ==
    wire # <<>> =>
        /\ wire[1].message.service = "ADMIN"
        /\ wire[1].message.command = "LOGIN"
        /\ wire[1].message.requestid = 0

\* the messages of a frame if every content item were decoded on its own:
\* those of the items that are records of the level-one service of their
\* entry, in the order of the entries and of the items
RECURSIVE Keep(_, _)
Keep(service, content) ==
    IF content = <<>> THEN <<>>
    ELSE (IF DecodeItem(service, Head(content)) # None
          THEN <<[variant |-> Variant(service), symbol |-> Head(content).key]>>
          ELSE <<>>) \o Keep(service, Tail(content))

RECURSIVE ItemWise(_)
ItemWise(data) ==
    IF data = <<>> THEN <<>>
    ELSE (IF Head(data).service \in LevelOneServices
          THEN Keep(Head(data).service, Head(data).content)
          ELSE <<>>) \o ItemWise(Tail(data))

\* the items of the entries of a frame that name a variant of StreamerData
RECURSIVE KnownItems(_)
KnownItems(data) ==
    IF data = <<>> THEN 0
    ELSE (IF Head(data).service \in LevelOneServices THEN Len(Head(data).content) ELSE 0)
         + KnownItems(Tail(data))

\* C14: when the reader reads a frame with a data entry of an unknown
\* service, it takes up no message for that entry (no more messages than the
\* other entries have items) and it keeps running.
C14_UnknownServiceSkipped ==
    [][\A c \in Conns : \A event \in DeliveryEvents :
          (ReaderRecv(c, event) /\ HasUnknownService(event)) =>
              /\ reader'[c].status = "running"
              /\ Len(reader'[c].pending) <= KnownItems(event.data)
              /\ conn'[c].chan = conn[c].chan]_vars

\* C14 witness: the consumer has received a message of a frame that arrived
\* after a frame with an entry of an unknown service.
C14_Witness ==
    \E c \in Conns :
        /\ hist.unknown > 0
        /\ \E i \in 1..Len(conn[c].got) : conn[c].got[i].frame > hist.unknown

\* C15: when the reader reads a text frame, every content item that decodes
\* on its own is taken up for delivery, whatever the other items and entries
\* of the frame are, and the response entries of the frame are applied.
C15_ItemGranularity ==
    [][\A c \in Conns : \A event \in DeliveryEvents :
          (ReaderRecv(c, event) /\ event.kind = "text") =>
              /\ reader'[c].pending = Stamped(ItemWise(event.data), nframes + 1)
              /\ event.response # <<>> =>
                     /\ reader'[c].pc = "lock"
                     /\ reader'[c].event.response = event.response]_vars

\* the variant of StreamerMessage that belongs to each level-one service
VariantOf ==
    [service \in LevelOneServices |->
        CASE service = "LEVELONE_EQUITIES" -> "LevelOneEquity"
          [] service = "LEVELONE_OPTIONS" -> "LevelOneOption"
          [] service = "LEVELONE_FUTURES" -> "LevelOneFutures"
          [] service = "LEVELONE_FUTURES_OPTIONS" -> "LevelOneFuturesOptions"
          [] service = "LEVELONE_FOREX" -> "LevelOneForex"]

\* every data entry of the frame is of a level-one service with items that
\* have a key and rightly typed tags, or is the ADMIN entry
WellFormed(event) ==
    /\ event.kind = "text"
    /\ \A i \in 1..Len(event.data) :
          \/ /\ event.data[i].service \in LevelOneServices
             /\ \A k \in 1..Len(event.data[i].content) :
                   /\ event.data[i].content[k].key # ""
                   /\ event.data[i].content[k].typed
          \/ event.data[i].service = "ADMIN" /\ event.data[i].content = <<>>

\* one message per content item, in the order of the entries and the items
RECURSIVE OnePerItem(_)
OnePerItem(data) ==
    IF data = <<>> THEN <<>>
    ELSE (IF Head(data).service = "ADMIN" THEN <<>>
          ELSE [k \in 1..Len(Head(data).content) |->
                    [variant |-> VariantOf[Head(data).service],
                     symbol |-> Head(data).content[k].key]])
         \o OnePerItem(Tail(data))

Before(a, b) == a.frame < b.frame \/ (a.frame = b.frame /\ a.pos < b.pos)

\* C17: what the consumer has received followed by what waits in the channel
\* is in the order of arrival on the socket (frame by frame, and inside a
\* frame in the order of the entries and items), without a repeated message.
C17_DeliveryInArrivalOrder ==
    \A c \in Conns :
        LET seen == conn[c].got \o conn[c].chan
        IN \A i \in 1..Len(seen) : \A j \in 1..Len(seen) :
              i < j => Before(seen[i], seen[j])

\* C17 witness: the consumer has received three messages of two frames.
C17_Witness ==
    \E c \in Conns :
        /\ Len(conn[c].got) >= 3
        /\ conn[c].got[1].frame # conn[c].got[3].frame

\* C19: a reader that has read one frame after the consumer dropped the
\* receiver reads no further frame.
C19_ReaderEndsWithinOneFrame ==
    [][\A c \in Conns : \A event \in DeliveryEvents :
          ReaderRecv(c, event) => ~conn[c].late]_vars

\* C20: a socket read error or the end of the stream ends the reader task and
\* leaves the channel as it is; an ended reader processes nothing more; the
\* consumer then receives what is enqueued, oldest first, and observes the
\* channel closed only when it is empty.
C20_ErrorEndsReaderAndCloses ==
    [][\A c \in Conns :
          /\ \A event \in DeliveryEvents :
                (ReaderRecv(c, event) /\ event.kind \in {"error", "eof"}) =>
                    /\ reader'[c].status = "done"
                    /\ conn'[c].chan = conn[c].chan
          /\ reader[c].status = "done" =>
                /\ reader'[c] = reader[c]
                /\ ~ENABLED ReaderDeliver(c)
                /\ ~ENABLED ReaderHandle(c)
          /\ (ConsumerRecv(c) /\ reader[c].status = "done") =>
                IF conn[c].chan # <<>>
                THEN /\ conn'[c].got = Append(conn[c].got, Head(conn[c].chan))
                     /\ conn'[c].chan = Tail(conn[c].chan)
                     /\ conn'[c].rx = "held"
                ELSE conn'[c].rx = "closed"]_vars

\* C20 witness: the reader ended on the socket, the consumer received a
\* message and then observed the channel closed.
C20_Witness ==
    \E c \in Conns :
        /\ reader[c].status = "done"
        /\ conn[c].rx = "closed"
        /\ conn[c].got # <<>>
        /\ conn[c].chan = <<>>

\* the quotes of the first n frames of the scenario that fills the channel:
\* AAPL and MSFT of frame 1, AAPL and MSFT of frame 2, ...
AllQuotes(n) ==
    [i \in 1..(2 * n) |->
        [variant |-> "LevelOneEquity",
         symbol |-> IF i % 2 = 1 THEN "AAPL" ELSE "MSFT",
         frame |-> (i + 1) \div 2,
         pos |-> 2 - (i % 2)]]

\* C18: the channel never holds more than 100 messages; a reader with a
\* message to send waits while the channel is full and can send as soon as
\* there is room; and while the receiver is alive and the reader was not
\* cancelled no message is lost: what the consumer received, what waits in
\* the channel and what the reader still has to send are, in this order, all
\* the messages decoded so far.
C18_BoundedChannelNoLoss ==
    \A c \in Conns :
        /\ Len(conn[c].chan) <= ChannelCapacity
        /\ (reader[c].status = "running" /\ reader[c].pc = "deliver"
                /\ conn[c].rx # "dropped") =>
               (ENABLED ReaderDeliver(c) <=> Len(conn[c].chan) < ChannelCapacity)
        /\ (conn[c].rx \in {"start", "held", "closed"}
                /\ reader[c].status \in {"running", "done"}) =>
               conn[c].got \o conn[c].chan \o reader[c].pending = AllQuotes(nframes)

\* C18 witness: the channel holds 100 messages, the reader waits with a
\* message to send and the consumer has received some.
C18_Witness ==
    \E c \in Conns :
        /\ Len(conn[c].chan) = ChannelCapacity
        /\ reader[c].status = "running"
        /\ reader[c].pc = "deliver"
        /\ reader[c].pending # <<>>
        /\ conn[c].rx = "held"
        /\ conn[c].got # <<>>

(***************************************************************************)
(* Properties of the market-data client.                                   *)
(***************************************************************************)
\* the requests the n-th REST call sent, in order
Emitted(n) == SelectSeq(http, LAMBDA r : r.by = "api" /\ r.call = n)

\* the n-th REST call is the last one, it has returned and its first
\* request was answered
Answered(n) == api.n = n /\ api.pc = "idle" /\ Emitted(n) # <<>>

\* the status of the answer to the k-th request of the last call
Status(k) == api.script[k].status

\* token requests with the refresh grant sent so far
Refreshes ==
    SelectSeq(http, LAMBDA r : r.form # <<>> /\ r.form[1] = <<"grant_type", "refresh_token">>)

\* C21: a REST call whose first request was answered has sent exactly one
\* Bearer-signed request when the first answer was not 401 and exactly two
\* when it was 401, the second signed with another access token than the
\* first; it never sends more than two
C21_OneRequestOrTwoAfter401 ==
    \A n \in 1..MaxCalls :
        Answered(n) =>
            /\ Len(Emitted(n)) = IF Status(1) = 401 THEN 2 ELSE 1
            /\ \A k \in 1..Len(Emitted(n)) : Emitted(n)[k].authorization[1] = "Bearer"
            /\ Len(Emitted(n)) = 2 =>
                  Emitted(n)[2].authorization # Emitted(n)[1].authorization

\* token requests the n-th REST call sent
RefreshesOf(n) == SelectSeq(http, LAMBDA r : r.by = "api" /\ r.call = n /\ r.method = "POST")

\* the server answers the first request of the last call with first and a
\* second one, if it comes, with second
Answers(first, second) ==
    /\ Len(api.script) = 2
    /\ Status(1) = first
    /\ Status(2) = second

\* C22: a REST call that is answered 401 and 401 again on the retry returns
\* the Unauthorized error, having refreshed exactly once and sent exactly
\* two requests
C22_SecondUnauthorizedSurfaces ==
    \A n \in 1..MaxCalls :
        Answered(n) /\ Answers(401, 401) =>
            /\ api.result.kind = "Err"
            /\ api.result.error = "Unauthorized"
            /\ Len(RefreshesOf(n)) = 1
            /\ Len(Emitted(n)) - Len(RefreshesOf(n)) = 2

\* the token set the tokens file holds
Stored == from_str_StoredTokenInfo(tokens_file.text)

\* C23: after a REST call that was answered 401 and then 200 on the retry,
\* exactly one refresh has occurred, the caller has the body of the second
\* answer, and the tokens file holds the access token that signed the retry,
\* which is not the one that signed the first request
C23_RetrySucceedsWithStoredRefresh ==
    \A n \in 1..MaxCalls :
        Answered(n) /\ Answers(401, 200) =>
            /\ Len(RefreshesOf(n)) = 1
            /\ api.result = Ok(api.script[2].body)
            /\ LET gets == SelectSeq(Emitted(n), LAMBDA r : r.method = "GET")
               IN  /\ Len(gets) = 2
                   /\ gets[2].authorization # gets[1].authorization
                   /\ Stored # None
                   /\ gets[2].authorization = <<"Bearer", Stored[1].access_token>>

\* C25: a REST call answered with 400, 403, 404 or 500 returns an error for
\* that status, not a value, and has sent one request and no refresh
C25_HttpErrorSurfaces ==
    \A n \in 1..MaxCalls :
        Answered(n) /\ Status(1) \in {400, 403, 404, 500} =>
            /\ api.result.kind = "Err"
            /\ api.result.error = "status"
            /\ Len(Emitted(n)) = 1
            /\ RefreshesOf(n) = <<>>

(***************************************************************************)
(* Properties of the tokens file and the authenticator.                    *)
(***************************************************************************)
\* the whole documents the tokens file may hold: the token sets and the
\* other objects the token endpoint answers with
Documents == {to_string_pretty(TokenDocument(g)) : g \in 0..MaxGrants}
             \cup {to_string_pretty(<<>>)}

\* C24: whatever a reader that signs a request has read from the tokens
\* file is a whole document, the one before a replacement or the one after
\* it, never a part of one
C24_ReadersSeeWholeTokenSets ==
    api.json_string # None => api.json_string[1] \in Documents

EndsBeforeWrite ==
    {"'code=' not found in URL", "panic", "transport", "Failed to retrieve tokens"}

QueryKeys(request) == {request.query[i][1] : i \in 1..Len(request.query)}

\* the query of the request carries the key exactly when the argument is
\* present, with the rendered value
Carries(request, key, argument, to_text(_)) ==
    IF argument = None THEN key \notin QueryKeys(request)
    ELSE \E i \in 1..Len(request.query) : request.query[i] = <<key, to_text(argument[1])>>

\* C27: in every request a REST call sent, an optional argument passed as
\* None has no key in the query, and a present one has its key with its
\* rendered value
C27_AbsentParametersOmitted ==
    \A k \in 1..Len(http) :
        http[k].by = "api" =>
            LET request == http[k].url
            IN  /\ \A fields \in FieldsArgs, indicative \in {None, Some(TRUE)} :
                      request = get_quotes(<<Symbol>>, fields, indicative) =>
                          /\ Carries(request, "fields", fields,
                                     LAMBDA v : fields_string(Some(v)))
                          /\ Carries(request, "indicative", indicative, bool_to_string)
                /\ \A fields \in FieldsArgs :
                      request = quote(Index, fields) =>
                          Carries(request, "fields", fields,
                                  LAMBDA v : fields_string(Some(v)))
                /\ \A a \in PriceHistoryArgs :
                      request = PriceHistory(a) =>
                          /\ Carries(request, "periodType", a.period_type, Display)
                          /\ Carries(request, "period", a.period, u64_to_string)
                          /\ Carries(request, "needPreviousClose", a.need_previous_close,
                                     bool_to_string)

\* the URL the user pasted: the line read without the newline that ends it
Pasted(line) ==
    IF line # <<>> /\ line[Len(line)] = "\n" THEN SubSeq(line, 1, Len(line) - 1) ELSE line

\* the value of the code parameter of a URL that has one: what follows
\* code= up to the next & or the end, with %40 read as @
CodeParameter(url) ==
    LET tail == SubSeq(url, find(url, CodeKey)[1] + Len(CodeKey) + 1, Len(url))
        end == IF find(tail, Ampersand) = None THEN Len(tail) ELSE find(tail, Ampersand)[1]
    IN  replace(SubSeq(tail, 1, end), EncodedAt, At)

\* token requests the n-th call of the authenticator sent
TokenRequestsOf(n) == SelectSeq(http, LAMBDA r : r.by = "auth" /\ r.call = n)

\* C28: authorize extracts from a pasted URL with code= the value of the
\* code parameter, wherever the parameter stands; for a URL without code=
\* it returns the missing-code error and sends no token request
C28_CodeIsTheCodeParameter ==
    auth.op = "authorize" =>
        IF find(Pasted(auth.returned_url), CodeKey) = None
        THEN /\ auth.pc = "idle"
             /\ auth.result = "'code=' not found in URL"
             /\ TokenRequestsOf(auth.n) = <<>>
        ELSE /\ auth.result \notin {"'code=' not found in URL", "panic"}
             /\ auth.response_code = CodeParameter(Pasted(auth.returned_url))

(***************************************************************************)
(* Properties of the level-one helpers.                                    *)
(***************************************************************************)
\* the last tag of the service of a helper
LastTag(helper) ==
    CASE helper = "level_one_equities" -> 51
      [] helper = "level_one_options" -> 55
      [] helper = "level_one_futures" -> 40
      [] helper = "level_one_futures_options" -> 31
      [] helper = "level_one_forex" -> 29

\* the request the last helper call built has every tag of the service in
\* ascending order when no field was given, else the tags of the fields
\* given, in the order given
HelperFields ==
    LET given == util.input[2]
        fields == util.output[1].fields
    IN  IF given = <<>>
        THEN /\ Len(fields) = LastTag(util.fn) + 1
             /\ \A i \in 1..Len(fields) : fields[i] = i - 1
        ELSE /\ Len(fields) = Len(given)
             /\ \A i \in 1..Len(given) : fields[i] = fmt(FieldEnum(util.fn), given[i])

\* C29: each call of a level-one helper builds a request with the whole
\* tag range of its service for an empty field list and with the tags of
\* the given fields in caller order otherwise, and leaves the ledger and
\* the request-id counter as they were
C29_HelperFieldsAndFrame ==
    [][util' # util =>
          /\ HelperFields'
          /\ subscriptions' = subscriptions
          /\ request_id' = request_id]_vars

\* the futures helper was called without fields in a started session that
\* has a subscription in its ledger
C29_Witness ==
    /\ util.fn = "level_one_futures"
    /\ util.input[2] = <<>>
    /\ Len(util.output[1].fields) = 41
    /\ request_id > 0
    /\ subscriptions # EmptyMap

(***************************************************************************)
(* Properties of the utilities.                                            *)
(***************************************************************************)
\* the first occurrences of the elements of v, in the order of v
Firsts(v) ==
    LET first == SelectSeq([i \in 1..Len(v) |-> i],
                           LAMBDA i : \A j \in 1..(i - 1) : v[j] # v[i])
    IN  [k \in 1..Len(first) |-> v[first[k]]]

\* no element of v occurs twice
Distinct(v) == \A i, j \in 1..Len(v) : v[i] = v[j] => i = j

\* C30: dedup_ordered returns the first occurrences of the distinct
\* elements in their order, applying it again changes nothing, and a vector
\* without duplicates is returned as it is
C30_DedupKeepsFirstOccurrences ==
    util.fn \in {"dedup_ordered", "dedup_ordered twice"} =>
        /\ util.output[1] = Firsts(util.input[1])
        /\ Distinct(util.output[1])
        /\ Distinct(util.input[1]) => util.output[1] = util.input[1]

\* dedup_ordered was applied twice to [a, b, a, c, b] and gave [a, b, c]
C30_Witness ==
    /\ util.fn = "dedup_ordered twice"
    /\ util.input[1] = <<"Quote", "Fundamental", "Quote", "Extended", "Fundamental">>
    /\ util.output[1] = <<"Quote", "Fundamental", "Extended">>

(***************************************************************************)
(* Teardown, the reader tasks and the session mutex.                       *)
(***************************************************************************)
\* the reader of connection c ends in this step on a socket error or on the
\* end of the stream
ReaderEnds(c) == reader[c].status = "running" /\ reader'[c].status = "done"

\* C31: when stop() returns Ok on a started session, and when the reader of
\* the session ends on a socket error, the ledger holds no (service, key)
\* entry.
C31_LedgerClearedOnTeardown ==
    [][/\ \A t \in Clients :
             (hist.started /\ StopReturns(t) /\ client'[t].result = "ok")
                 => Entries(subscriptions') = {}
       /\ \A c \in Conns :
             (ReaderEnds(c) /\ InUse(c)) => Entries(subscriptions') = {}]_vars

\* C32: at most one reader task of the session is running, in every state.
C32_AtMostOneReader ==
    Cardinality({c \in Conns : reader[c].status = "running"}) <= 1

\* caller t is suspended on network I/O: the connect or the LOGIN write of
\* start, a write of send, the close of stop
OnNetwork(t) == client[t].pc \in {"start_connect", "start_login", "send_io", "stop_close"}

\* C33: no caller holds the session mutex while it is suspended on network
\* I/O.
C33_MutexNotHeldAcrossIo ==
    \A t \in Clients : OnNetwork(t) => lock # t

\* C34: whatever another caller is doing on the WebSocket, a caller that is
\* in no call can read is_active at once.
C34_IsActiveNeverWaits ==
    \A t, u \in Clients :
        (t # u /\ OnNetwork(t) /\ client[u].pc = "idle") => ENABLED IsActive(u)

\* the send call of t returns the error of build_message or of the write in
\* this step
SendFails(t) ==
    /\ client[t].pc \in {"send_loop", "send_io"}
    /\ client'[t].pc = "idle"
    /\ client'[t].result \in {"build", "transport"}

\* C35: in a send call carrying r1..rn that has written k-1 frames, the
\* ledger is the ledger the call found with r1..r(k-1) recorded until rk is
\* recorded, and with r1..rk recorded while frame k is built and written; when
\* building or writing frame k fails the call returns with r1..rk recorded,
\* none of r(k+1)..rn recorded and k-1 frames written.
C35_LedgerLeadsFrame ==
    [][\A t \in Clients :
          LET requests == client[t].requests
              base == client[t].base
              written == Len(requests) - Len(client[t].queue)
          IN /\ client[t].pc = "send_loop" =>
                    /\ Len(wire) = base.wire + written
                    /\ subscriptions = ApplyAll(base.subs, SubSeq(requests, 1, written))
             /\ client[t].pc = "send_io" =>
                    /\ Len(wire) = base.wire + written
                    /\ subscriptions = ApplyAll(base.subs, SubSeq(requests, 1, written + 1))
             /\ SendFails(t) =>
                    /\ Len(wire') = base.wire + written
                    /\ subscriptions' = ApplyAll(base.subs, SubSeq(requests, 1, written + 1))
                    /\ request_id' = base.id + written + 1]_vars

\* C35 witness: the owner's send of SUBS and UNSUBS failed at the write of its
\* second frame: the UNSUBS is in the ledger, its frame is not on the wire.
C35_Witness ==
    /\ client["owner"].op = "send"
    /\ client["owner"].result = "transport"
    /\ client["worker"].op = "none"
    /\ Len(wire) = 2
    /\ wire[2].message.command = "SUBS"
    /\ subscriptions = ApplyAll(EmptyMap, <<SubsAapl, UnsubsAapl>>)

(***************************************************************************)
(* The inbound frames and the session state.                               *)
(***************************************************************************)
\* C36: once is_active is true no step of the session makes it false: no
\* start, send or stop, no socket error or end of stream, no response entry.
C36_IsActiveMonotonic == [][is_active => is_active']_vars

\* C36 witness: is_active is still true after the acknowledged connection
\* ended on a socket error, a further start() and a stop() that returned Ok.
C36_Witness ==
    /\ is_active
    /\ nconn = 2
    /\ reader[1].status = "done"
    /\ reader[2].status = "aborted"
    /\ client["owner"].op = "stop"
    /\ client["owner"].result = "ok"

\* no send call is between taking the writer and returning
NoSendInProgress == \A t \in Clients : client[t].pc \notin {"send_loop", "send_io"}

\* C37: a send that fails at building or writing a frame returns with no
\* writer in the session; while the session that was connected has no writer
\* and no send is in progress, a send is rejected with the not-connected
\* error and writes no frame, leaves the ledger alone and takes no request
\* id, and only the LOGIN step of a start() stores a writer again.
C37_FailedSendLosesWriter ==
    [][\A t \in Clients :
          /\ SendFails(t) => writer' = 0
          /\ (hist.connected /\ writer = 0 /\ NoSendInProgress /\ SendIssued(t))
                => /\ Rejected(t)
                   /\ wire' = wire
                   /\ subscriptions' = subscriptions
                   /\ request_id' = request_id
          /\ (hist.connected /\ writer = 0 /\ NoSendInProgress /\ writer' # 0)
                => \E u \in Clients : StartLogin(u)]_vars

\* C37 witness: after a LOGIN the owner's send failed at its first write and
\* burnt request id 1; the owner's next send came back with the not-connected
\* error, the LOGIN frame is still the only frame written.
C37_Witness ==
    /\ hist.connected
    /\ writer = 0
    /\ client["owner"].op = "send"
    /\ client["owner"].result = "not_connected"
    /\ client["worker"].op = "none"
    /\ nconn = 1
    /\ Len(wire) = 1
    /\ request_id = 2

\* C38: while a send call is between taking the writer and returning, every
\* frame that is written is a frame of that call, so the frames of a call are
\* contiguous on the wire; and the frames on the wire are in the order of
\* their request ids.
C38_SendFramesContiguous ==
    [][/\ \A t \in Clients :
             (client[t].pc \in {"send_loop", "send_io"} /\ wire' # wire)
                 => /\ SendIo(t)
                    /\ wire' = Append(wire, [conn |-> client[t].w,
                                             message |-> client[t].msg])
       /\ \A i, j \in 1..Len(wire') :
             i < j => wire'[i].message.requestid < wire'[j].message.requestid]_vars

\* C38 witness: the owner has written the first of its two frames and holds
\* the mutex; the worker is in no call, its send has to wait.
C38_Witness ==
    /\ client["owner"].pc = "send_io"
    /\ Len(client["owner"].requests) = 2
    /\ Len(client["owner"].queue) = 1
    /\ client["worker"].pc = "idle"
    /\ lock = "owner"
    /\ wire[Len(wire)].message.command = "SUBS"

\* the reader of connection c waits in tx.send for room in the full channel
ReaderBlocked(c) ==
    /\ reader[c].status = "running"
    /\ reader[c].pc = "deliver"
    /\ conn[c].rx # "dropped"
    /\ ~HasPermit(conn[c].chan)

\* C39: while a reader waits on the full delivery channel and no caller is
\* in a call, is_active, stop and send can take the session mutex at once;
\* and whoever holds the mutex can take its next step, so no call waits for
\* the mutex for ever.
C39_BlockedReaderLeavesMutex ==
    /\ ((\E c \in Conns : ReaderBlocked(c)) /\ (\A t \in Clients : client[t].pc = "idle"))
          => \A t \in Clients :
                /\ ENABLED IsActive(t)
                /\ ENABLED StopBegin(t)
                /\ request_id < MaxId => ENABLED SendBegin(t, <<SubsAapl>>)
    /\ lock # "free"
          => /\ lock \in Clients
             /\ ENABLED (\/ StartConnect(lock) \/ StartLogin(lock) \/ SendStep(lock)
                         \/ SendIo(lock) \/ StopClose(lock))

\* C39 witness: the channel is full and the reader waits with the next
\* message; a send of the owner has returned Ok and the worker has read
\* is_active.
C39_Witness ==
    /\ ReaderBlocked(1)
    /\ Len(conn[1].chan) = ChannelCapacity
    /\ client["owner"].op = "send"
    /\ client["owner"].result = "ok"
    /\ client["worker"].op = "is_active"
    /\ lock = "free"

\* C40: a step of a reader task (reading and decoding a frame, handling its
\* response entries) leaves the ledger, the request-id counter, the writer
\* and the reader handle as they are; it changes is_active only when it
\* handles a frame with a LOGIN response entry.
C40_FramesLeaveSessionState ==
    [][\A c \in Conns :
          /\ (\E event \in SocketEvents : ReaderRecv(c, event))
                => UNCHANGED <<subscriptions, request_id, writer, listener_handle,
                               is_active>>
          /\ ReaderHandle(c)
                => /\ UNCHANGED <<subscriptions, request_id, writer, listener_handle>>
                   /\ is_active' # is_active
                         => \E i \in 1..Len(reader[c].event.response) :
                                reader[c].event.response[i].command = "LOGIN"]_vars

\* C40 witness: the session is active after a LOGIN response was handled,
\* its ledger holds a subscription, and the reader is about to handle a
\* LOGOUT response.
C40_Witness ==
    /\ hist.acked
    /\ is_active
    /\ Entries(subscriptions) # {}
    /\ writer = 1
    /\ reader[1].status = "running"
    /\ reader[1].pc = "lock"
    /\ reader[1].event.response[1].command = "LOGOUT"

====
